---- MODULE Spec2Model ----
(***************************************************************************)
(* Tui-Beat: the melodic voice model (synth.rs), the step sequencer        *)
(* (sequencer.rs) and the control operations that reach them (app.rs).     *)
(*                                                                         *)
(* Arithmetic.  The program computes envelope levels and phases in f32.    *)
(* The model uses fixed point: a level is an integer number of 1/LevelOne  *)
(* units, a phase an integer number of 1/PhaseOne cycles, and the envelope *)
(* times are given in samples (seconds * sample rate).  A quotient is      *)
(* rounded up, so that a positive increment stays positive as it does in   *)
(* f32 for the values the program uses.                                    *)
(*                                                                         *)
(* Option<T> is modelled as a set with at most one element: None is {},    *)
(* Some(x) is {x}.                                                         *)
(***************************************************************************)
EXTENDS Integers, Sequences, FiniteSets, TLC

\* ------------------------------------------------------------------ bounds

\* Envelope times of the scaled-down model, in samples (attack * sample_rate ...).
AttackSamples == 2
DecaySamples == 2
ReleaseSamples == 2

\* bpm_up / bpm_down are explored within InitialBpm +/- 5 * BpmSpan.
BpmSpan == 1

\* The resolution of the fixed point: the level 1.0 and the phase 1.0 (one cycle).
LevelOne == 4
PhaseOne == 2

\* Frames per audio buffer (data.len() / channels) of the scaled-down model.
BufferFrames == 2

\* The length of a one-shot drum voice of the scaled-down model, in samples.
DrumSamples == 2

\* Drum previews are explored up to this many one-shot voices sounding at once.
MaxHits == 10

\* Effect chains are explored up to this many effects.
MaxChain == 3

\* seq_set_note is explored while the pattern holds at most this many notes.
MaxNotes == 1

\* ------------------------------------------------------- program constants

\* Synth::new: bpm 120.0, sustain 0.7 (in tenths).
InitialBpm == 120
SustainTenths == 7

\* Sequencer::new: vec![None; 16], num_steps 16.
InitialSteps == 16

\* App::bpm_up / bpm_down: step 5.0, clamp(30.0, 300.0).
BpmStep == 5
BpmMin == 30
BpmMax == 300

\* main.rs: Synth::new(44100.0).
DeviceRate == 44100

\* App::new: base_octave 4.
InitialOctave == 4

\* App::octave_up: if self.base_octave < 8.
MaxOctave == 8

\* App::volume_up / volume_down: steps of 0.05, so the volume 1.0 is 20 steps.
VolumeOne == 20

\* Synth::new: volume 0.5, in steps of 0.05.
InitialVolume == 10

\* The sample 1.0 in the units of the output: millionths.
SampleOne == 1000000

\* f32::tanh(x) is exactly 1.0 from x = 9.011 on; in thousandths.
TanhSaturation == 9011

\* ScaleQuantizer::quantize: best_dist starts at i32::MAX.
I32Max == 2147483647

\* The pitches (MIDI note numbers, u8) the keyboard and the patterns use.
Pitches == {60, 72}

\* Sequencer sample rates of the scaled-down model: at bpm 115..125 they give
\* step intervals of 1, 2 and 3 samples.
ModelRates == {12, 20}

None == {}
Some(x) == {x}
Unwrap(o) == CHOOSE x \in o : TRUE

Max(a, b) == IF a >= b THEN a ELSE b
Min(a, b) == IF a <= b THEN a ELSE b

\* a / b rounded up, for a >= 0 and b > 0.
CeilDiv(a, b) == (a + b - 1) \div b

\* a / b cut to a whole number: `as u64` with the call of round() left out.
TruncDiv(a, b) == a \div b

\* f32::round of a / b for a >= 0, b > 0: to nearest, halves away from zero.
RoundDiv(a, b) == (2 * a + b) \div (2 * b)

VARIABLES
  voices,      \* Synth.voices: pitch -> Voice
  bpm,         \* Synth.bpm
  sequencer,   \* Synth.sequencer: steps, num_steps, current_step, playing,
               \*                  sample_rate, sample_counter
  last_op,     \* observation: the operation that ran last
  result,      \* observation: what it returned (tick's event, toggle_play's note,
               \*              the stage of the voice HashMap::insert displaced)
  retired,     \* observation: the voices the last generate_sample dropped
  gap,         \* observation: ticks since the last step-boundary event, that tick included
  steady,      \* observation: bpm unchanged since the last step-boundary event
  event_step,  \* observation: current_step at the last step-boundary event
  lock,        \* the Mutex around the Synth: "free", or the thread holding the guard
  app,         \* the control thread: App.pressed_keys, base_octave, status_msg,
               \*   key_last_seen (its keys), mode, `enhanced` of main.rs,
               \*   sent (observation: per pressed key the note_on its press sent),
               \*   seq_cursor, drum_track, drum_step (the cursors),
               \*   the steps left of the
               \*   running operation, the note toggle_play returned, and an
               \*   observation of the samples generated inside the operation
  audio,       \* the audio callback: idle or in its frame loop, frames left
  volume,      \* Synth.volume, in steps of 0.05
  wave_type,   \* Synth.wave_type
  drum_machine,\* Synth.drum_machine
  fx,          \* Synth.fx: the effects of the chain, in order
  quantizer,   \* a ScaleQuantizer: scale and root
  sample_rate  \* Synth.sample_rate: the rate generate_sample is called at

threads == <<lock, app, audio>>

mixer == <<volume, wave_type, drum_machine, fx, quantizer, sample_rate>>

vars == <<voices, bpm, sequencer, last_op, result, retired, gap, steady, event_step,
          lock, app, audio, volume, wave_type, drum_machine, fx, quantizer, sample_rate>>

\* ------------------------------------------------------------------- Voice

\* 2^n for n >= 0.
RECURSIVE Pow2(_)
Pow2(n) == IF n = 0 THEN 1 ELSE 2 * Pow2(n - 1)

\* 2^(k/12) * 10000 for k = 0..11.
SemitoneRatio == <<10000, 10595, 11225, 11892, 12599, 13348,
                   14142, 14983, 15874, 16818, 17818, 18877>>

\* 440 * 2^((note - 69) / 12), in whole Hz.
note_to_freq(note) ==
  LET oct == (note - 69) \div 12
      k   == (note - 69) % 12
  IN  IF oct >= 0
        THEN (440 * SemitoneRatio[k + 1] * Pow2(oct)) \div 10000
        ELSE (440 * SemitoneRatio[k + 1] * Pow2(oct + 6)) \div (10000 * 64)

Voice_new(note) ==
  [frequency |-> note_to_freq(note), phase |-> 0,
   stage |-> "Attack", level |-> 0, release_level |-> 0]

\* Voice::release without its `stage != Off` test.
Voice_release_unguarded(v) ==
  [v EXCEPT !.release_level = v.level, !.stage = "Release"]

Voice_release(v) ==
  IF v.stage # "Off"
    THEN [v EXCEPT !.release_level = v.level, !.stage = "Release"]
    ELSE v

is_finished(v) == v.stage = "Off"

\* The match on self.stage without `self.level = 0.0` in the Release arm.
envelope_step_unclamped(v, a, d, s, r) ==
  CASE v.stage = "Attack" ->
         LET l == v.level + CeilDiv(LevelOne, a)
         IN  IF l >= LevelOne THEN [v EXCEPT !.level = LevelOne, !.stage = "Decay"]
                              ELSE [v EXCEPT !.level = l]
    [] v.stage = "Decay" ->
         LET l == v.level - CeilDiv(LevelOne - s, d)
         IN  IF l <= s THEN [v EXCEPT !.level = s, !.stage = "Sustain"]
                       ELSE [v EXCEPT !.level = l]
    [] v.stage = "Sustain" -> [v EXCEPT !.level = s]
    [] v.stage = "Release" ->
         LET l == v.level - CeilDiv(v.release_level, r)
         IN  IF l <= 0 THEN [v EXCEPT !.level = l, !.stage = "Off"]
                       ELSE [v EXCEPT !.level = l]
    [] OTHER -> v

\* The match on self.stage with a Sustain arm that leaves the level alone.
envelope_step_keeps_level(v, a, d, s, r) ==
  CASE v.stage = "Attack" ->
         LET l == v.level + CeilDiv(LevelOne, a)
         IN  IF l >= LevelOne THEN [v EXCEPT !.level = LevelOne, !.stage = "Decay"]
                              ELSE [v EXCEPT !.level = l]
    [] v.stage = "Decay" ->
         LET l == v.level - CeilDiv(LevelOne - s, d)
         IN  IF l <= s THEN [v EXCEPT !.level = s, !.stage = "Sustain"]
                       ELSE [v EXCEPT !.level = l]
    [] v.stage = "Sustain" -> v
    [] v.stage = "Release" ->
         LET l == v.level - CeilDiv(v.release_level, r)
         IN  IF l <= 0 THEN [v EXCEPT !.level = 0, !.stage = "Off"]
                       ELSE [v EXCEPT !.level = l]
    [] OTHER -> v

\* The envelope part of next_sample: the match on self.stage.
envelope_step(v, a, d, s, r) ==
  CASE v.stage = "Attack" ->
         LET l == v.level + CeilDiv(LevelOne, a)
         IN  IF l >= LevelOne THEN [v EXCEPT !.level = LevelOne, !.stage = "Decay"]
                              ELSE [v EXCEPT !.level = l]
    [] v.stage = "Decay" ->
         LET l == v.level - CeilDiv(LevelOne - s, d)
         IN  IF l <= s THEN [v EXCEPT !.level = s, !.stage = "Sustain"]
                       ELSE [v EXCEPT !.level = l]
    [] v.stage = "Sustain" -> [v EXCEPT !.level = s]
    [] v.stage = "Release" ->
         LET l == v.level - CeilDiv(v.release_level, r)
         IN  IF l <= 0 THEN [v EXCEPT !.level = 0, !.stage = "Off"]
                       ELSE [v EXCEPT !.level = l]
    [] OTHER -> v

\* frequency / sr on the phase grid: positive, below one cycle, and larger for
\* a higher note.
phase_inc(frequency) == IF frequency >= 440 THEN PhaseOne - 1 ELSE 1

\* The waveform at a phase, in units of 1/2: sine and triangle are sampled at
\* the grid points, the square is the sign of the sine, the sawtooth 2*phase - 1.
waveform(wave, phase) ==
  LET q == (4 * phase) \div PhaseOne     \* the quarter of the cycle, 0..3
  IN  CASE wave = "Sine"     -> <<0, 2, 0, -2>>[q + 1]
        [] wave = "Square"   -> IF q < 2 THEN 2 ELSE -2
        [] wave = "Sawtooth" -> q - 2
        [] wave = "Triangle" -> IF q < 2 THEN 2 * q - 2 ELSE 6 - 2 * q

\* Voice::next_sample: the voice after the call and the sample it returns.
Voice_next_sample(v, wave, a, d, s, r) ==
  IF v.stage = "Off"
    THEN [voice |-> v, out |-> 0]
    ELSE LET e  == envelope_step(v, a, d, s, r)
             ph == v.phase + phase_inc(v.frequency)
         IN  [voice |-> [e EXCEPT !.phase = IF ph >= PhaseOne THEN ph - PhaseOne ELSE ph],
              out   |-> waveform(wave, v.phase) * e.level]

\* ------------------------------------------------------------- Sequencer

Sequencer_new(sr) ==
  [steps |-> [i \in 1..InitialSteps |-> None], num_steps |-> InitialSteps,
   current_step |-> 0, playing |-> FALSE,
   sample_rate |-> sr, sample_counter |-> 0]

\* steps[i] of the 0-based Vec.
Slot(s, i) == s.steps[i + 1]

samples_per_step(s, b) == RoundDiv(s.sample_rate * 60, b * 4)

\* `>` for `>=`: the step ends one sample late.
step_ends_late(cnt, sps) == cnt > sps

\* `==` for `>=`: a step that is already longer than the interval never ends.
step_ends_exact(cnt, sps) == cnt = sps

\* if self.sample_counter >= sps
step_ends(cnt, sps) == cnt >= sps

\* Sequencer::tick: the sequencer after the call and the Option<StepEvent> returned.
tick(s, b) ==
  IF ~s.playing
    THEN [seq |-> s, event |-> None]
    ELSE LET sps  == Max(samples_per_step(s, b), 1)
             old  == s.sample_counter
             cnt  == old + 1
             prev == IF s.current_step = 0 THEN s.num_steps - 1 ELSE s.current_step - 1
             ev   == IF old = 0
                       THEN Some([note_off |-> Slot(s, prev),
                                  note_on  |-> Slot(s, s.current_step)])
                       ELSE None
         IN  IF step_ends(cnt, sps)
               THEN [seq |-> [s EXCEPT !.sample_counter = 0,
                                       !.current_step = (s.current_step + 1) % s.num_steps],
                     event |-> ev]
               ELSE [seq |-> [s EXCEPT !.sample_counter = cnt], event |-> ev]

\* toggle_play without `self.sample_counter = 0`.
toggle_play_keeps_counter(s) ==
  IF ~s.playing
    THEN [seq |-> [s EXCEPT !.playing = TRUE], note |-> None]
    ELSE [seq |-> [s EXCEPT !.playing = FALSE],
          note |-> IF s.current_step < Len(s.steps) THEN Slot(s, s.current_step) ELSE None]

\* toggle_play pausing the way stop() does: current_step and the counter rewound.
toggle_play_rewinds(s) ==
  IF ~s.playing
    THEN [seq |-> [s EXCEPT !.playing = TRUE, !.sample_counter = 0], note |-> None]
    ELSE [seq |-> [s EXCEPT !.playing = FALSE, !.current_step = 0, !.sample_counter = 0],
          note |-> IF s.current_step < Len(s.steps) THEN Slot(s, s.current_step) ELSE None]

\* Sequencer::toggle_play: the sequencer after the call and the Option<u8> returned.
toggle_play(s) ==
  IF ~s.playing
    THEN [seq |-> [s EXCEPT !.playing = TRUE, !.sample_counter = 0], note |-> None]
    ELSE [seq |-> [s EXCEPT !.playing = FALSE],
          note |-> IF s.current_step < Len(s.steps) THEN Slot(s, s.current_step) ELSE None]

\* self.steps.resize(next, None) on a fresh vec![None; next]: the old slots lost.
resize_from_empty(steps, n) == [i \in 1..n |-> None]

\* Vec::resize(n, None): the first n slots kept, the new ones None.
resize(steps, n) == [i \in 1..n |-> IF i <= Len(steps) THEN steps[i] ELSE None]

\* cycle_num_steps with `>` for `>=` in its last test.
cycle_num_steps_above(s) ==
  LET next == CASE s.num_steps = 8 -> 16 [] s.num_steps = 16 -> 24
                [] s.num_steps = 24 -> 32 [] OTHER -> 8
  IN  [s EXCEPT !.num_steps = next,
                !.steps = resize(s.steps, next),
                !.current_step = IF s.current_step > next THEN 0 ELSE s.current_step]

\* Sequencer::cycle_num_steps
cycle_num_steps(s) ==
  LET next == CASE s.num_steps = 8 -> 16 [] s.num_steps = 16 -> 24
                [] s.num_steps = 24 -> 32 [] OTHER -> 8
  IN  [s EXCEPT !.num_steps = next,
                !.steps = resize(s.steps, next),
                !.current_step = IF s.current_step >= next THEN 0 ELSE s.current_step]

\* set_step that makes room for the slot instead of testing the index.
set_step_grows(s, step, note) ==
  [s EXCEPT !.steps = [resize(s.steps, Max(Len(s.steps), step + 1))
                         EXCEPT ![step + 1] = Some(note)]]

\* Sequencer::set_step
set_step(s, step, note) ==
  IF step < Len(s.steps) THEN [s EXCEPT !.steps[step + 1] = Some(note)] ELSE s

\* Sequencer::clear_step
clear_step(s, step) ==
  IF step < Len(s.steps) THEN [s EXCEPT !.steps[step + 1] = None] ELSE s

\* --------------------------------------------------------- ScaleQuantizer

Abs(x) == IF x < 0 THEN -x ELSE x

\* Scale::ALL, in the order next() cycles through.
Scale_ALL ==
  <<"Off", "Major", "Minor", "PentaMajor", "PentaMinor", "Blues", "Dorian", "Mixolydian">>

\* Scale::intervals: semitones above the root.
intervals(scale) ==
  CASE scale = "Off"        -> <<0, 1, 2, 3, 4, 5, 6, 7, 8, 9, 10, 11>>
    [] scale = "Major"      -> <<0, 2, 4, 5, 7, 9, 11>>
    [] scale = "Minor"      -> <<0, 2, 3, 5, 7, 8, 10>>
    [] scale = "PentaMajor" -> <<0, 2, 4, 7, 9>>
    [] scale = "PentaMinor" -> <<0, 3, 5, 7, 10>>
    [] scale = "Blues"      -> <<0, 3, 5, 6, 7, 10>>
    [] scale = "Dorian"     -> <<0, 2, 3, 5, 7, 9, 10>>
    [] scale = "Mixolydian" -> <<0, 2, 4, 5, 7, 9, 10>>

\* Scale::next
Scale_next(scale) ==
  LET i == CHOOSE j \in 1..Len(Scale_ALL) : Scale_ALL[j] = scale
  IN  Scale_ALL[(i % Len(Scale_ALL)) + 1]

\* ScaleQuantizer::new
ScaleQuantizer_new == [scale |-> "Off", root |-> 0]

\* i32::rem_euclid(12): the remainder in 0..11, also of a negative number.
rem_euclid(a, n) == ((a % n) + n) % n

\* i32::clamp
clamp(x, lo, hi) == IF x < lo THEN lo ELSE IF x > hi THEN hi ELSE x

\* The inner loop without the octave below and the octave above.
candidates_same_octave(ivs, rel) == [j \in 1..Len(ivs) |-> ivs[j] - rel]

\* The candidates of the two loops in the order they are visited: for each
\* interval iv of the table, iv - rel, iv - 12 - rel, iv + 12 - rel.
candidates(ivs, rel) ==
  [j \in 1..(3 * Len(ivs)) |->
     LET iv == ivs[((j - 1) \div 3) + 1]
     IN  <<iv - rel, iv - 12 - rel, iv + 12 - rel>>[((j - 1) % 3) + 1]]

\* `<=` for `<`: of two equally near candidates the later one wins.
closer_or_as_near(dist, best_dist) == dist <= best_dist

\* if candidate.abs() < best_dist
closer(dist, best_dist) == dist < best_dist

\* best_offset after the loops have visited cands[i..], from best_dist and
\* best_offset before cands[i].
RECURSIVE best_offset(_, _, _, _)
best_offset(cands, i, dist, offset) ==
  IF i > Len(cands)
    THEN offset
    ELSE IF closer(Abs(cands[i]), dist)
           THEN best_offset(cands, i + 1, Abs(cands[i]), cands[i])
           ELSE best_offset(cands, i + 1, dist, offset)

\* quantize after its early return: rel, the two loops, the clamp.
snap(q, note) ==
  LET rel == rem_euclid(note - q.root, 12)
  IN  clamp(note + best_offset(candidates(intervals(q.scale), rel), 1, I32Max, 0), 0, 127)

\* quantize without the early return, Off snapping like the scale after it.
quantize_off_as_major(q, note) ==
  IF q.scale = "Off" THEN snap([q EXCEPT !.scale = Scale_next("Off")], note) ELSE snap(q, note)

\* ScaleQuantizer::quantize
quantize(q, note) == IF q.scale = "Off" THEN note ELSE snap(q, note)

\* ScaleQuantizer::cycle_root
cycle_root(q) == [q EXCEPT !.root = (q.root + 1) % 12]

\* ------------------------------------------------------------ EffectChain

\* The AudioEffect trait has no implementation in the repository. The chains
\* of the model are built from two effects that do not commute, a gain
\* (2 * s) and an offset (s + 1); each keeps the sample it was last given as
\* its internal state, and records the calls of process and of reset it
\* received during the chain operation that ran last.
EffectNames == {"gain", "offset"}

Effect_new(name) == [name |-> name, calls |-> 0, resets |-> 0, seen |-> 0]

\* AudioEffect::process: the effect after the call and the sample returned.
Effect_process(e, s) ==
  [fx  |-> [e EXCEPT !.calls = @ + 1, !.seen = s],
   out |-> IF e.name = "gain" THEN 2 * s ELSE s + 1]

\* AudioEffect::reset
Effect_reset(e) == [e EXCEPT !.resets = @ + 1, !.seen = 0]

\* EffectChain::new
EffectChain_new == <<>>

\* The sample the fold hands to effect i: the chain's input for the first
\* effect, the output of effect i - 1 for the others.
RECURSIVE fold_input(_, _, _)
fold_input(chain, s, i) ==
  IF i = 1
    THEN s
    ELSE Effect_process(chain[i - 1], fold_input(chain, s, i - 1)).out

\* process that answers silence for an empty chain.
process_silencing_empty(chain, s) ==
  IF chain = <<>>
    THEN [chain |-> chain, out |-> 0]
    ELSE [chain |-> [i \in 1..Len(chain) |->
                       Effect_process(chain[i], fold_input(chain, s, i)).fx],
          out   |-> fold_input(chain, s, Len(chain) + 1)]

\* A fold that hands every effect the chain's input.
process_in_parallel(chain, s) ==
  IF chain = <<>>
    THEN [chain |-> chain, out |-> s]
    ELSE [chain |-> [i \in 1..Len(chain) |-> Effect_process(chain[i], s).fx],
          out   |-> Effect_process(chain[Len(chain)], s).out]

\* EffectChain::process: the chain after the call and the sample returned.
EffectChain_process(chain, s) ==
  IF chain = <<>>
    THEN [chain |-> chain, out |-> s]
    ELSE [chain |-> [i \in 1..Len(chain) |->
                       Effect_process(chain[i], fold_input(chain, s, i)).fx],
          out   |-> fold_input(chain, s, Len(chain) + 1)]

\* The call records of the effects set to zero, as a chain operation begins.
unobserved(chain) == [i \in 1..Len(chain) |-> [chain[i] EXCEPT !.calls = 0, !.resets = 0]]

\* EffectChain::is_empty
is_empty(chain) == chain = <<>>

\* EffectChain::reset_all
reset_all(chain) == [i \in 1..Len(chain) |-> Effect_reset(chain[i])]

\* ------------------------------------------------------------ DrumMachine
\* drums.rs is not part of the sources at hand. The drum machine is modelled
\* from its contract in the specification and from the calls app.rs, ui.rs and
\* synth.rs make on it: the field names are those the callers read.

\* The track kinds, in the order App::drum_preview numbers them.
DrumKinds == <<"Kick", "Snare", "C-Hat", "O-Hat", "Clap", "L.Tom", "M.Tom", "H.Tom">>

\* A track with an empty pattern of n steps, unmuted, at full volume.
Track_new(kind, n) ==
  [kind |-> kind, steps |-> [i \in 1..n |-> FALSE], muted |-> FALSE, volume |-> VolumeOne]

\* No voice sounding: per samples left (1..DrumSamples), the number of voices.
NoHits == [l \in 1..DrumSamples |-> 0]

\* No voice on any track.
Silence == [t \in 1..Len(DrumKinds) |-> NoHits]

\* DrumMachine::new(sample_rate): the tracks, the shared clock, and per track
\* the one-shot voices that sound.
DrumMachine_new(sr) ==
  [tracks |-> [t \in 1..Len(DrumKinds) |-> Track_new(DrumKinds[t], InitialSteps)],
   num_steps |-> InitialSteps, current_step |-> 0, sample_counter |-> 0,
   playing |-> FALSE, sample_rate |-> sr,
   hits |-> Silence]

\* DrumMachine::toggle_step(track, step), 0-based
toggle_step(dm, track, step) ==
  IF track < Len(dm.tracks) /\ step < dm.num_steps
    THEN [dm EXCEPT !.tracks[track + 1].steps[step + 1] = ~@]
    ELSE dm

\* DrumMachine::clear_step(track, step), 0-based
drum_clear_step(dm, track, step) ==
  IF track < Len(dm.tracks) /\ step < dm.num_steps
    THEN [dm EXCEPT !.tracks[track + 1].steps[step + 1] = FALSE]
    ELSE dm

\* DrumMachine::toggle_mute(track)
toggle_mute(dm, track) ==
  IF track < Len(dm.tracks)
    THEN [dm EXCEPT !.tracks[track + 1].muted = ~@]
    ELSE dm

\* DrumMachine::toggle_play: the transport flipped, the clock restarted on
\* play as in Sequencer::toggle_play; the voices that sound are left to decay.
drum_toggle_play(dm) ==
  IF ~dm.playing
    THEN [dm EXCEPT !.playing = TRUE, !.sample_counter = 0]
    ELSE [dm EXCEPT !.playing = FALSE]

\* One more voice at the start of its decay.
strike(h) == [h EXCEPT ![DrumSamples] = @ + 1]

\* DrumMachine::trigger_now(track): a one-shot voice of the track's kind.
trigger_now(dm, track) ==
  IF track < Len(dm.tracks)
    THEN [dm EXCEPT !.hits[track + 1] = strike(@)]
    ELSE dm

\* The number of one-shot voices that sound.
RECURSIVE SumTo(_, _)
SumTo(f, n) == IF n = 0 THEN 0 ELSE f[n] + SumTo(f, n - 1)

drum_voices(dm) ==
  SumTo([t \in 1..Len(dm.hits) |-> SumTo(dm.hits[t], DrumSamples)], Len(dm.hits))

\* The sample of a one-shot voice with `left` samples to go, in units of
\* 1/(2 * LevelOne): full scale at the hit, decaying linearly.
percussive_sample(left) == (2 * LevelOne * left) \div DrumSamples

\* The drum bus: per track the sum of its voices scaled by the track volume,
\* summed across the tracks; in units of 1/(2 * LevelOne * VolumeOne).
drum_mix(tracks, hits) ==
  SumTo([t \in 1..Len(hits) |->
           tracks[t].volume *
             SumTo([l \in 1..DrumSamples |-> hits[t][l] * percussive_sample(l)],
                   DrumSamples)],
        Len(hits))

\* One sample of the drum machine at a step interval of sps samples: nothing
\* to do while stopped and silent; else the clock of Sequencer::tick, at the
\* start of a step a new voice for every unmuted track whose bit at
\* current_step is set, and the voices mixed and advanced.
drum_sample(dm, sps) ==
  IF ~dm.playing /\ dm.hits = Silence THEN [dm |-> dm, out |-> 0] ELSE
  LET cnt    == dm.sample_counter + 1
      fire   == dm.playing /\ dm.sample_counter = 0
      clock  == IF ~dm.playing THEN dm
                ELSE IF step_ends(cnt, sps)
                  THEN [dm EXCEPT !.sample_counter = 0,
                                  !.current_step = (dm.current_step + 1) % dm.num_steps]
                  ELSE [dm EXCEPT !.sample_counter = cnt]
      struck == [t \in 1..Len(dm.hits) |->
                   IF fire /\ ~dm.tracks[t].muted /\ dm.tracks[t].steps[dm.current_step + 1]
                     THEN strike(dm.hits[t]) ELSE dm.hits[t]]
      aged   == [t \in 1..Len(dm.hits) |->
                   [l \in 1..DrumSamples |->
                      IF l < DrumSamples THEN struck[t][l + 1] ELSE 0]]
  IN  [dm |-> [clock EXCEPT !.hits = aged], out |-> drum_mix(dm.tracks, struck)]

\* DrumMachine::generate_sample(bpm): the step interval recomputed from bpm.
DrumMachine_generate_sample(dm, b) ==
  drum_sample(dm, Max(samples_per_step(dm, b), 1))

\* ------------------------------------------------------------------ Synth

\* Synth::new: attack 0.01, decay 0.1, sustain 0.7, release 0.3, in the model's units.
attack == AttackSamples
decay == DecaySamples
sustain == (SustainTenths * LevelOne) \div 10
release == ReleaseSamples

\* note_on as entry(note).or_insert_with(..): a sounding voice is kept.
note_on_keeps_existing(vs, note) ==
  [p \in DOMAIN vs \cup {note} |-> IF p \in DOMAIN vs THEN vs[p] ELSE Voice_new(note)]

\* self.voices.insert(note, Voice::new(note))
note_on(vs, note) ==
  [p \in DOMAIN vs \cup {note} |-> IF p = note THEN Voice_new(note) ELSE vs[p]]

\* note_off as self.voices.remove(&note): the voice cut instead of released.
note_off_removes(vs, note) == [p \in DOMAIN vs \ {note} |-> vs[p]]

\* if let Some(v) = self.voices.get_mut(&note) { v.release(); }
note_off(vs, note) ==
  IF note \in DOMAIN vs THEN [vs EXCEPT ![note] = Voice_release(@)] ELSE vs

\* The sequencer block with the note-on applied before the note-off.
apply_event_on_first(vs, ev) ==
  LET v1 == IF ev.note_on # None THEN note_on(vs, Unwrap(ev.note_on)) ELSE vs
  IN  IF ev.note_off # None THEN note_off(v1, Unwrap(ev.note_off)) ELSE v1

\* generate_sample, the sequencer block: the event's note-off, then its note-on.
apply_event(vs, ev) ==
  LET v1 == IF ev.note_off # None THEN note_off(vs, Unwrap(ev.note_off)) ELSE vs
  IN  IF ev.note_on # None THEN note_on(v1, Unwrap(ev.note_on)) ELSE v1

\* generate_sample, the voice loop: every voice advanced by one sample.
advance_voices(vs) ==
  [p \in DOMAIN vs |-> Voice_next_sample(vs[p], wave_type, attack, decay, sustain, release).voice]

\* generate_sample without its retain.
retain_all(vs) == vs

\* self.voices.retain(|_, v| !v.is_finished())
retain_unfinished(vs) ==
  [p \in {q \in DOMAIN vs : ~is_finished(vs[q])} |-> vs[p]]

\* The voices retain drops.
dropped(vs) ==
  [p \in {q \in DOMAIN vs : is_finished(vs[q])} |-> vs[p]]

\* Synth::active_notes: self.voices.keys().copied().collect()
active_notes(vs) == DOMAIN vs

\* The sum of f over the set S.
RECURSIVE SumOver(_, _)
SumOver(f, S) ==
  IF S = {} THEN 0 ELSE LET x == CHOOSE y \in S : TRUE IN f[x] + SumOver(f, S \ {x})

\* a / b cut towards zero, b > 0.
DivToZero(a, b) == IF a >= 0 THEN a \div b ELSE -((-a) \div b)

\* mel_mix: the sum of next_sample over the voices, in units of 1/(2 * LevelOne).
mel_mix(vs) ==
  SumOver([p \in DOMAIN vs |->
             Voice_next_sample(vs[p], wave_type, attack, decay, sustain, release).out],
          DOMAIN vs)

\* sqrt(n) in thousandths, n in 1..12.
SqrtThousandths == <<1000, 1414, 1732, 2000, 2236, 2449, 2646, 2828, 3000, 3162, 3317, 3464>>

\* One in the units of the two buses: 1 / (2 * LevelOne * VolumeOne).
MixOne == 2 * LevelOne * VolumeOne

\* mel_mix * self.volume / (self.voices.len().max(1) as f32).sqrt()
mel_scaled(mix, vol, n) == DivToZero(mix * vol * 1000, SqrtThousandths[Max(n, 1)])

\* self.drum_machine.generate_sample(self.bpm) * self.volume
drum_out(mix, vol) == DivToZero(mix * vol, VolumeOne)

\* tanh at 0, 1, .. 10, in millionths, rounded down.
TanhMillionths ==
  <<0, 761594, 964027, 995054, 999329, 999909, 999987, 999998, 999999, 999999, 999999>>

\* f32::tanh of x / MixOne, in units of 1/SampleOne: between whole numbers the
\* table is interpolated; from TanhSaturation on, 1 - tanh is less than half
\* the distance between 1.0 and the f32 below it and the result rounds to 1.0.
tanh(x) ==
  LET a == Abs(x)
      k == a \div MixOne
      r == a % MixOne
      y == IF a * 1000 >= TanhSaturation * MixOne
             THEN SampleOne
             ELSE TanhMillionths[k + 1]
                    + ((TanhMillionths[k + 2] - TanhMillionths[k + 1]) * r) \div MixOne
  IN  IF x < 0 THEN -y ELSE y

\* Synth::volume after App::volume_up / volume_down, in twentieths.
volume_up(vol) == Min(vol + 1, VolumeOne)
volume_down(vol) == Max(vol - 1, 0)

\* WaveType::next
WaveOrder == <<"Sine", "Square", "Sawtooth", "Triangle">>
WaveType_next(w) ==
  LET i == CHOOSE j \in 1..Len(WaveOrder) : WaveOrder[j] = w
  IN  WaveOrder[(i % Len(WaveOrder)) + 1]

\* The drum machine run at the tempo of Synth::new, whatever self.bpm is.
drum_bus_at_initial_bpm(dm, b) == DrumMachine_generate_sample(dm, InitialBpm)

\* self.drum_machine.generate_sample(self.bpm): the drum machine gets the bpm
\* the sequencer was ticked with.
drum_bus(dm, b) == DrumMachine_generate_sample(dm, b)

\* generate_sample from the voice loop on, for the voices vs the loop runs
\* over: the melodic bus before and after the effect chain, the drum bus, and
\* the sample returned. voices.len() is read after the retain.
mixdown(vs, vol, chain, dm, b) ==
  LET ms == mel_scaled(mel_mix(vs), vol,
                       Cardinality(DOMAIN retain_unfinished(advance_voices(vs))))
      mo == EffectChain_process(chain, ms).out
      dr == drum_out(drum_bus(dm, b).out, vol)
  IN  [mel_scaled |-> ms, mel_out |-> mo, drum_out |-> dr, out |-> tanh(mo + dr)]

\* ------------------------------------------------------------------ App

\* A status message: format!(text, value), or a fixed text (value 0).
Status(text, value) == [text |-> text, value |-> value]

\* bpm_up without its clamp.
bpm_up_unclamped(b) == b + BpmStep

bpm_up(b) == Min(Max(b + BpmStep, BpmMin), BpmMax)
bpm_down(b) == Min(Max(b - BpmStep, BpmMin), BpmMax)

\* ---------------------------------------------------------------- actions

\* Synth::generate_sample on the Synth.
Synth_generate_sample ==
  LET t  == tick(sequencer, bpm)
      v1 == IF t.event # None THEN apply_event(voices, Unwrap(t.event)) ELSE voices
      v2 == advance_voices(v1)
      m  == mixdown(v1, volume, fx, drum_machine, bpm)
  IN  /\ sequencer' = t.seq
      /\ fx' = IF is_empty(fx) THEN fx ELSE EffectChain_process(fx, m.mel_scaled).chain
      /\ drum_machine' = drum_bus(drum_machine, bpm).dm
      /\ voices' = retain_unfinished(v2)
      /\ retired' = dropped(v2)
      /\ last_op' = "generate_sample"
      /\ result' = t.event
      /\ gap' = IF ~sequencer.playing THEN gap
                ELSE IF t.event # None THEN 1 ELSE gap + 1
      /\ steady' = IF t.event # None THEN TRUE ELSE steady
      /\ event_step' = IF t.event # None THEN sequencer.current_step ELSE event_step
      /\ UNCHANGED <<bpm, volume, wave_type, quantizer, sample_rate>>

\* What generate_sample computes when it is called in the state at hand: the
\* two buses and the sample it returns.
generated ==
  LET t  == tick(sequencer, bpm)
      v1 == IF t.event # None THEN apply_event(voices, Unwrap(t.event)) ELSE voices
  IN  mixdown(v1, volume, fx, drum_machine, bpm)

\* Synth::generate_sample, called by the audio callback once per frame.
GenerateSample == Synth_generate_sample /\ UNCHANGED threads

\* Synth::note_on on the Synth.
Synth_note_on(p) ==
  /\ voices' = note_on(voices, p)
  /\ last_op' = "note_on"
  /\ result' = IF p \in DOMAIN voices THEN Some(voices[p].stage) ELSE None
  /\ retired' = <<>>
  /\ UNCHANGED <<bpm, sequencer, gap, steady, event_step, mixer>>

\* Synth::note_on, as App::key_press calls it for a key that maps to pitch p.
NoteOn(p) == Synth_note_on(p) /\ UNCHANGED threads

\* Synth::note_off on the Synth.
Synth_note_off(p) ==
  /\ voices' = note_off(voices, p)
  /\ last_op' = "note_off"
  /\ result' = None
  /\ retired' = <<>>
  /\ UNCHANGED <<bpm, sequencer, gap, steady, event_step, mixer>>

\* Synth::note_off, as App::key_release calls it for a key that maps to pitch p.
NoteOff(p) == Synth_note_off(p) /\ UNCHANGED threads

\* App::seq_toggle_play
SeqTogglePlay ==
  LET t == toggle_play(sequencer)
  IN  /\ sequencer' = t.seq
      /\ voices' = IF t.note # None THEN note_off(voices, Unwrap(t.note)) ELSE voices
      /\ last_op' = "seq_toggle_play"
      /\ result' = t.note
      /\ retired' = <<>>
      /\ gap' = IF t.seq.playing THEN 0 ELSE gap
      /\ steady' = IF t.seq.playing THEN TRUE ELSE steady
      /\ app' = [app EXCEPT !.status_msg =
                    IF t.seq.playing THEN Status("Seq: Playing", 0)
                                     ELSE Status("Seq: Paused", 0)]
      /\ UNCHANGED <<bpm, event_step, lock, audio, mixer>>

InWindow(b) == b >= InitialBpm - BpmStep * BpmSpan /\ b <= InitialBpm + BpmStep * BpmSpan

\* App::bpm_up
BpmUp ==
  /\ InWindow(bpm_up(bpm))
  /\ bpm' = bpm_up(bpm)
  /\ steady' = (steady /\ bpm' = bpm)
  /\ last_op' = "bpm_up"
  /\ result' = None
  /\ retired' = <<>>
  /\ app' = [app EXCEPT !.status_msg = Status("BPM: ", bpm')]
  /\ UNCHANGED <<voices, sequencer, gap, event_step, lock, audio, mixer>>

\* App::bpm_down
BpmDown ==
  /\ InWindow(bpm_down(bpm))
  /\ bpm' = bpm_down(bpm)
  /\ steady' = (steady /\ bpm' = bpm)
  /\ last_op' = "bpm_down"
  /\ result' = None
  /\ retired' = <<>>
  /\ app' = [app EXCEPT !.status_msg = Status("BPM: ", bpm')]
  /\ UNCHANGED <<voices, sequencer, gap, event_step, lock, audio, mixer>>

\* ------------------------------------------------------------ initial states

\* A pattern of n slots with a, b in slots 0 and 1 and c in the last slot, as
\* seq_set_note leaves it.
PatternOf(n, a, b, c) ==
  [i \in 1..n |-> IF i = 1 THEN a ELSE IF i = 2 THEN b ELSE IF i = n THEN c ELSE None]

Pattern(a, b, c) == PatternOf(InitialSteps, a, b, c)

Patterns ==
  { Pattern(None, None, None), Pattern(Some(60), Some(60), None),
    Pattern(Some(60), Some(72), None), Pattern(Some(60), None, Some(60)) }

InitWith(vs, rates, patterns) ==
  /\ voices = vs
  /\ bpm = InitialBpm
  /\ \E sr \in rates, pat \in patterns :
       sequencer = [Sequencer_new(sr) EXCEPT !.steps = pat, !.num_steps = Len(pat)]
  /\ last_op = "init"
  /\ result = None
  /\ retired = <<>>
  /\ gap = 0
  /\ steady = TRUE
  /\ event_step = 0
  /\ lock = "free"
  /\ app = [pressed_keys |-> {}, base_octave |-> InitialOctave,
            key_last_seen |-> {}, sent |-> <<>>, mode |-> "Play", enhanced |-> TRUE,
            status_msg |-> Status("", 0), seq_cursor |-> 0,
            drum_track |-> 0, drum_step |-> 0,
            todo |-> <<>>, held |-> None, dirty |-> 0]
  /\ audio = [pc |-> "idle", frames |-> 0]
  /\ volume = InitialVolume
  /\ wave_type = "Sine"
  /\ drum_machine = DrumMachine_new(sequencer.sample_rate)
  /\ fx = EffectChain_new
  /\ quantizer = ScaleQuantizer_new
  /\ sample_rate = sequencer.sample_rate

\* The synth under the keyboard and a playing pattern, at a constant bpm.
Init ==
  InitWith(<<>>, {12}, {Pattern(None, None, None), Pattern(Some(60), Some(60), None)})

Next ==
  \/ GenerateSample
  \/ \E p \in Pitches : NoteOn(p)
  \/ \E p \in Pitches : NoteOff(p)
  \/ SeqTogglePlay

Spec == Init /\ [][Next]_vars

\* The audio stream keeps calling the callback, which calls generate_sample for
\* every frame (audio.rs, build_stream): generate_sample is always enabled and
\* keeps being taken.
LiveNext ==
  \/ GenerateSample
  \/ \E p \in Pitches : NoteOn(p)
  \/ \E p \in Pitches : NoteOff(p)

LiveInit == InitWith(<<>>, {DeviceRate}, {Pattern(None, None, None)})

LiveSpec == LiveInit /\ [][LiveNext]_vars /\ WF_vars(GenerateSample)

\* The sequencer transport under tempo changes, keyboard idle.
SeqInit == InitWith(<<>>, ModelRates, Patterns)

SeqNext ==
  \/ GenerateSample
  \/ SeqTogglePlay
  \/ BpmUp
  \/ BpmDown

SeqSpec == SeqInit /\ [][SeqNext]_vars

\* The transport at the rate main.rs constructs the Synth with, at the initial bpm.
ClockInit == InitWith(<<>>, {DeviceRate}, {Pattern(None, None, None)})

ClockNext ==
  \/ GenerateSample
  \/ SeqTogglePlay

ClockSpec == ClockInit /\ [][ClockNext]_vars

\* One Voice on its own: release() and next_sample() called in any order, with
\* any envelope parameters, and the voice kept after it reaches Off.
EnvelopeTimes == {1, 2}
WaveTypes == {"Sine", "Square", "Sawtooth", "Triangle"}
SustainLevels == {0, sustain, LevelOne}

VoiceRelease(p) ==
  /\ voices' = [voices EXCEPT ![p] = Voice_release(@)]
  /\ last_op' = "release"
  /\ result' = None
  /\ UNCHANGED <<bpm, sequencer, retired, gap, steady, event_step, mixer>>
  /\ UNCHANGED threads

VoiceNextSample(p) ==
  \E a \in EnvelopeTimes, d \in EnvelopeTimes, r \in EnvelopeTimes,
     s \in SustainLevels, w \in WaveTypes :
    LET n == Voice_next_sample(voices[p], w, a, d, s, r)
    IN  /\ voices' = [voices EXCEPT ![p] = n.voice]
        /\ last_op' = "next_sample"
        /\ result' = Some([pitch |-> p, out |-> n.out])
        /\ UNCHANGED <<bpm, sequencer, retired, gap, steady, event_step, mixer>>
        /\ UNCHANGED threads

VoiceInit ==
  InitWith([p \in Pitches |-> Voice_new(p)], {DeviceRate}, {Pattern(None, None, None)})

VoiceNext ==
  \/ \E p \in Pitches : VoiceRelease(p)
  \/ \E p \in Pitches : VoiceNextSample(p)

VoiceSpec == VoiceInit /\ [][VoiceNext]_vars

\* The pattern under edits while the transport runs: Sequencer::tick (inside
\* generate_sample), toggle_play, cycle_num_steps, set_step and clear_step in
\* any order, with slot indexes inside and outside the pattern.
EditIndexes == {0, 7, 8, 32}
EditNotes == {60}

\* Sequencer::cycle_num_steps, as App::seq_cycle_steps calls it.
CycleNumSteps ==
  /\ sequencer' = cycle_num_steps(sequencer)
  /\ last_op' = "cycle_num_steps"
  /\ result' = None
  /\ retired' = <<>>
  /\ UNCHANGED <<voices, bpm, gap, steady, event_step, mixer>>
  /\ UNCHANGED threads

\* Sequencer::set_step(i, note)
SetStep(i, note) ==
  /\ sequencer' = set_step(sequencer, i, note)
  /\ last_op' = "set_step"
  /\ result' = None
  /\ retired' = <<>>
  /\ UNCHANGED <<voices, bpm, gap, steady, event_step, mixer>>
  /\ UNCHANGED threads

\* Sequencer::clear_step(i)
ClearStep(i) ==
  /\ sequencer' = clear_step(sequencer, i)
  /\ last_op' = "clear_step"
  /\ result' = None
  /\ retired' = <<>>
  /\ UNCHANGED <<voices, bpm, gap, steady, event_step, mixer>>
  /\ UNCHANGED threads

EditInit == InitWith(<<>>, {12}, {Pattern(None, None, None)})

EditNext ==
  \/ GenerateSample
  \/ SeqTogglePlay
  \/ CycleNumSteps
  \/ \E i \in EditIndexes, n \in EditNotes : SetStep(i, n)
  \/ \E i \in EditIndexes : ClearStep(i)

EditSpec == EditInit /\ [][EditNext]_vars

\* ----------------------------------------------------------------- threads
\* The control thread (main.rs run loop: App operations and ui::draw) and the
\* audio callback (audio.rs build_stream) on the one Arc<Mutex<Synth>>.  An
\* App operation is the sequence of its steps: changes of pressed_keys,
\* synth.lock(), the calls made through the guard, and the drop of the guard.

synth_vars == <<voices, bpm, sequencer, last_op, result, retired, gap, steady, event_step,
                volume, wave_type, drum_machine, fx, quantizer, sample_rate>>

\* Keys of the model: z and q map to two pitches, an octave apart.
Keys == {"z", "q"}

\* key_to_note, for the keys of the model: (semitone, octave offset) per key.
key_to_note(key, base_octave) ==
  IF key \notin {"z", "q", ","}
    THEN None
    ELSE LET st_oct == CASE key = "z" -> <<0, 0>> [] key = "q" -> <<0, 1>>
                         [] key = "," -> <<12, 0>>
             note   == (base_octave + st_oct[2]) * 12 + 12 + st_oct[1]
         IN  IF note >= 0 /\ note <= 127 THEN Some(note) ELSE None

Step(op, key, note) == [op |-> op, key |-> key, note |-> note]

\* self.synth.lock().unwrap().note_on(note): the guard is a temporary, dropped
\* at the end of the statement.
locked_call(op, note) ==
  <<Step("lock", None, None), Step(op, None, note), Step("unlock", None, None)>>

\* App::key_press, after its test of pressed_keys.
key_press(key) ==
  <<Step("insert", Some(key), None)>> \o
  (IF key_to_note(key, app.base_octave) # None
     THEN locked_call("note_on", key_to_note(key, app.base_octave)) ELSE <<>>)

\* App::key_release, for a key that is in pressed_keys.
key_release(key) ==
  <<Step("remove", Some(key), None)>> \o
  (IF key_to_note(key, app.base_octave) # None
     THEN locked_call("note_off", key_to_note(key, app.base_octave)) ELSE <<>>)

\* App::release_all: key_release for every key of `keys`, in its order.
RECURSIVE release_all(_)
release_all(keys) ==
  IF keys = <<>> THEN <<>> ELSE key_release(Head(keys)) \o release_all(Tail(keys))

\* The orders in which iterating a HashSet may yield its elements.
Orders(S) ==
  {q \in [1..Cardinality(S) -> S] : \A i, j \in DOMAIN q : i # j => q[i] # q[j]}

\* seq_toggle_play with a guard per call, as drum_toggle_play takes them.
seq_toggle_play_two_locks ==
  <<Step("lock", None, None), Step("toggle_play", None, None), Step("unlock", None, None),
    Step("lock", None, None), Step("note_off_held", None, None), Step("unlock", None, None)>>

\* App::seq_toggle_play: toggle_play and the note_off of what it returns,
\* through one guard.
seq_toggle_play ==
  <<Step("lock", None, None), Step("toggle_play", None, None),
    Step("note_off_held", None, None), Step("unlock", None, None)>>

\* ui::draw_synth_seq: the snapshot of bpm and the sequencer through one guard.
draw_synth_seq ==
  <<Step("lock", None, None), Step("snapshot", None, None), Step("unlock", None, None)>>

\* Mutex::lock that returns whether or not the Mutex is held.
can_lock_held(l) == TRUE

\* Mutex::lock returns once no other guard is alive.
can_lock(l) == l = "free"

\* Inside a guard's scope: the next lock/unlock step of the operation is the
\* drop of the guard.
InSection(todo) ==
  \E i \in 1..Len(todo) :
    todo[i].op = "unlock" /\ \A j \in 1..(i - 1) : todo[j].op # "lock"

\* Observation of the running operation: 0 it has not changed the Synth,
\* 1 it has, 2 a sample was generated after that change and the operation
\* has not returned, 3 the operation then changed the Synth again.
after_change(d, changed) ==
  IF ~changed THEN d ELSE IF d = 0 THEN 1 ELSE IF d = 2 THEN 3 ELSE d

Begin(steps) ==
  /\ app.todo = <<>>
  /\ app' = [app EXCEPT !.todo = steps, !.dirty = 0]
  /\ UNCHANGED <<synth_vars, lock, audio>>

\* The control thread takes its next step, which changed the Synth or not.
Advance(changed) ==
  app' = [app EXCEPT !.todo = Tail(@), !.dirty = after_change(@, changed)]

KeyPress(key) == key \notin app.pressed_keys /\ Begin(key_press(key))

KeyRelease(key) == key \in app.pressed_keys /\ Begin(key_release(key))

\* App::release_all, as toggle_mode, octave_up and octave_down call it.
ReleaseAll ==
  /\ app.pressed_keys # {}
  /\ \E keys \in Orders(app.pressed_keys) : Begin(release_all(keys))

AppSeqTogglePlay == Begin(seq_toggle_play)

UiDraw == Begin(draw_synth_seq)

NextStep(op) == app.todo # <<>> /\ Head(app.todo).op = op

CtlPressedKeys ==
  /\ NextStep("insert") \/ NextStep("remove")
  /\ LET k == Unwrap(Head(app.todo).key)
     IN  app' = [app EXCEPT !.todo = Tail(@),
                            !.pressed_keys = IF NextStep("insert") THEN @ \cup {k}
                                                                   ELSE @ \ {k}]
  /\ UNCHANGED <<synth_vars, lock, audio>>

CtlLock ==
  /\ NextStep("lock")
  /\ can_lock(lock)
  /\ lock' = "control"
  /\ Advance(FALSE)
  /\ UNCHANGED <<synth_vars, audio>>

CtlNoteOn ==
  /\ NextStep("note_on")
  /\ Synth_note_on(Unwrap(Head(app.todo).note))
  /\ Advance(TRUE)
  /\ UNCHANGED <<lock, audio>>

CtlNoteOff ==
  /\ NextStep("note_off")
  /\ Synth_note_off(Unwrap(Head(app.todo).note))
  /\ Advance(voices' # voices)
  /\ UNCHANGED <<lock, audio>>

\* let Some(note) = s.sequencer.toggle_play()
CtlTogglePlay ==
  LET t == toggle_play(sequencer)
  IN  /\ NextStep("toggle_play")
      /\ sequencer' = t.seq
      /\ app' = [app EXCEPT !.todo = Tail(@), !.held = t.note,
                            !.dirty = after_change(@, TRUE)]
      /\ last_op' = "toggle_play"
      /\ result' = t.note
      /\ retired' = <<>>
      /\ gap' = IF t.seq.playing THEN 0 ELSE gap
      /\ steady' = IF t.seq.playing THEN TRUE ELSE steady
      /\ UNCHANGED <<voices, bpm, event_step, lock, audio, mixer>>

\* { s.note_off(note); }
CtlNoteOffHeld ==
  /\ NextStep("note_off_held")
  /\ IF app.held # None THEN Synth_note_off(Unwrap(app.held)) ELSE UNCHANGED synth_vars
  /\ app' = [app EXCEPT !.todo = Tail(@), !.held = None,
                        !.dirty = after_change(@, voices' # voices),
                        !.status_msg = IF sequencer.playing
                                         THEN Status("Seq: Playing", 0)
                                         ELSE Status("Seq: Paused", 0)]
  /\ UNCHANGED <<lock, audio>>

CtlSnapshot ==
  /\ NextStep("snapshot")
  /\ Advance(FALSE)
  /\ UNCHANGED <<synth_vars, lock, audio>>

CtlUnlock ==
  /\ NextStep("unlock")
  /\ lock' = "free"
  /\ app' = [app EXCEPT !.todo = Tail(@),
                        !.dirty = IF Len(app.todo) = 1 /\ @ # 3 THEN 0 ELSE @]
  /\ UNCHANGED <<synth_vars, audio>>

\* let mut synth = synth.lock().unwrap(); let frame_count = data.len() / channels;
CallbackLock ==
  /\ audio.pc = "idle"
  /\ can_lock(lock)
  /\ lock' = "audio"
  /\ \E n \in 1..BufferFrames : audio' = [pc |-> "frames", frames |-> n]
  /\ UNCHANGED <<synth_vars, app>>

\* One turn of the frame loop.
CallbackFrame ==
  /\ audio.pc = "frames"
  /\ audio.frames > 0
  /\ Synth_generate_sample
  /\ audio' = [audio EXCEPT !.frames = @ - 1]
  /\ app' = [app EXCEPT !.dirty = IF app.todo # <<>> /\ @ = 1 THEN 2 ELSE @]
  /\ UNCHANGED lock

\* The end of the closure: the guard is dropped.
CallbackUnlock ==
  /\ audio.pc = "frames"
  /\ audio.frames = 0
  /\ lock' = "free"
  /\ audio' = [pc |-> "idle", frames |-> 0]
  /\ UNCHANGED <<synth_vars, app>>

\* The pattern after seq_cycle_steps has brought it to 8 slots, with a note in
\* slot 0, at a sample rate that makes the step interval one sample.
ThreadInit == InitWith(<<>>, {8}, {PatternOf(8, Some(60), None, None)})

ThreadNext ==
  \/ \E k \in Keys : KeyPress(k)
  \/ \E k \in Keys : KeyRelease(k)
  \/ ReleaseAll
  \/ AppSeqTogglePlay
  \/ UiDraw
  \/ CtlPressedKeys
  \/ CtlLock
  \/ CtlNoteOn
  \/ CtlNoteOff
  \/ CtlTogglePlay
  \/ CtlNoteOffHeld
  \/ CtlSnapshot
  \/ CtlUnlock
  \/ CallbackLock
  \/ CallbackFrame
  \/ CallbackUnlock

ThreadSpec == ThreadInit /\ [][ThreadNext]_vars

\* The voice loop of generate_sample with the Synth's envelope parameters as
\* they are at the call: pub fields, any value of their range.  The voices are
\* kept after they reach Off.
voice_loop(vs, wave, a, d, s, r) ==
  [p \in DOMAIN vs |-> Voice_next_sample(vs[p], wave, a, d, s, r).voice]

\* The levels of the voices that are in Sustain.
sustaining(vs) ==
  [p \in {q \in DOMAIN vs : vs[q].stage = "Sustain"} |-> vs[p].level]

VoiceLoop ==
  \E a \in EnvelopeTimes, d \in EnvelopeTimes, r \in EnvelopeTimes, s \in SustainLevels :
    /\ voices' = voice_loop(voices, wave_type, a, d, s, r)
    /\ last_op' = "voice_loop"
    /\ result' = Some([sustain |-> s, held |-> sustaining(voices)])
    /\ UNCHANGED <<bpm, sequencer, retired, gap, steady, event_step, mixer>>
    /\ UNCHANGED threads

SustainInit ==
  InitWith([p \in Pitches |-> Voice_new(p)], {DeviceRate}, {Pattern(None, None, None)})

SustainNext ==
  \/ VoiceLoop
  \/ \E p \in Pitches : VoiceRelease(p)
  \/ \E p \in Pitches : NoteOn(p)

SustainSpec == SustainInit /\ [][SustainNext]_vars

\* The master tempo over its whole range, at the rate main.rs constructs the
\* Synth with: bpm_up and bpm_down from any bpm they can reach, and the
\* transport started and paused.
AppBpmUp ==
  /\ bpm' = bpm_up(bpm)
  /\ steady' = (steady /\ bpm' = bpm)
  /\ last_op' = "bpm_up"
  /\ result' = None
  /\ retired' = <<>>
  /\ app' = [app EXCEPT !.status_msg = Status("BPM: ", bpm')]
  /\ UNCHANGED <<voices, sequencer, gap, event_step, lock, audio, mixer>>

AppBpmDown ==
  /\ bpm' = bpm_down(bpm)
  /\ steady' = (steady /\ bpm' = bpm)
  /\ last_op' = "bpm_down"
  /\ result' = None
  /\ retired' = <<>>
  /\ app' = [app EXCEPT !.status_msg = Status("BPM: ", bpm')]
  /\ UNCHANGED <<voices, sequencer, gap, event_step, lock, audio, mixer>>

TempoInit == InitWith(<<>>, {DeviceRate}, {Pattern(None, None, None)})

TempoNext ==
  \/ AppBpmUp
  \/ AppBpmDown
  \/ SeqTogglePlay

TempoSpec == TempoInit /\ [][TempoNext]_vars

\* The keyboard's octave: App operations in one piece, as the control thread
\* runs them back to back between two audio buffers.

\* release_all after the octave has changed: the notes of the next octave.
released_at_next_octave(vs, keys, base_octave) ==
  LET notes == UNION {key_to_note(k, base_octave + 1) : k \in keys}
  IN  [p \in DOMAIN vs |-> IF p \in notes THEN Voice_release(vs[p]) ELSE vs[p]]

\* App::release_all: the voices after key_release of every key of `keys`.
released(vs, keys, base_octave) ==
  LET notes == UNION {key_to_note(k, base_octave) : k \in keys}
  IN  [p \in DOMAIN vs |-> IF p \in notes THEN Voice_release(vs[p]) ELSE vs[p]]

\* `<=` for `<` in octave_up.
can_octave_up_from_top(o) == o <= MaxOctave

\* if self.base_octave < 8
can_octave_up(o) == o < MaxOctave

\* if self.base_octave > 0
can_octave_down(o) == o > 0

\* App::key_press
AppKeyPress(key) ==
  /\ key \notin app.pressed_keys
  /\ app' = [app EXCEPT !.pressed_keys = @ \cup {key}]
  /\ voices' = IF key_to_note(key, app.base_octave) # None
                 THEN note_on(voices, Unwrap(key_to_note(key, app.base_octave)))
                 ELSE voices
  /\ last_op' = "key_press"
  /\ result' = None
  /\ retired' = <<>>
  /\ UNCHANGED <<bpm, sequencer, gap, steady, event_step, lock, audio, mixer>>

\* App::octave_up / App::octave_down, by `step` = 1 / -1.
OctaveStep(allowed, step, name) ==
  /\ IF allowed
       THEN /\ voices' = released(voices, app.pressed_keys, app.base_octave)
            /\ app' = [app EXCEPT !.pressed_keys = {},
                                  !.key_last_seen = {},
                                  !.sent = <<>>,
                                  !.base_octave = @ + step,
                                  !.status_msg = Status("Octave: ", app.base_octave + step)]
       ELSE UNCHANGED <<voices, app>>
  /\ last_op' = name
  /\ result' = None
  /\ retired' = <<>>
  /\ UNCHANGED <<bpm, sequencer, gap, steady, event_step, lock, audio, mixer>>

AppOctaveUp == OctaveStep(can_octave_up(app.base_octave), 1, "octave_up")

AppOctaveDown == OctaveStep(can_octave_down(app.base_octave), -1, "octave_down")

OctaveInit == InitWith(<<>>, {DeviceRate}, {Pattern(None, None, None)})

OctaveNext ==
  \/ \E k \in Keys : AppKeyPress(k)
  \/ AppOctaveUp
  \/ AppOctaveDown

OctaveSpec == OctaveInit /\ [][OctaveNext]_vars

\* ------------------------------------------------------------------ mixer

\* App::volume_up
VolumeUp ==
  /\ volume' = volume_up(volume)
  /\ app' = [app EXCEPT !.status_msg = Status("Volume: ", volume')]
  /\ last_op' = "volume_up"
  /\ result' = None
  /\ retired' = <<>>
  /\ UNCHANGED <<voices, bpm, sequencer, gap, steady, event_step, lock, audio>>
  /\ UNCHANGED <<wave_type, drum_machine, fx, quantizer, sample_rate>>

\* App::volume_down
VolumeDown ==
  /\ volume' = volume_down(volume)
  /\ app' = [app EXCEPT !.status_msg = Status("Volume: ", volume')]
  /\ last_op' = "volume_down"
  /\ result' = None
  /\ retired' = <<>>
  /\ UNCHANGED <<voices, bpm, sequencer, gap, steady, event_step, lock, audio>>
  /\ UNCHANGED <<wave_type, drum_machine, fx, quantizer, sample_rate>>

\* App::cycle_wave
CycleWave ==
  /\ wave_type' = WaveType_next(wave_type)
  /\ app' = [app EXCEPT !.status_msg = Status("Wave: ", wave_type')]
  /\ last_op' = "cycle_wave"
  /\ result' = None
  /\ retired' = <<>>
  /\ UNCHANGED <<voices, bpm, sequencer, gap, steady, event_step, lock, audio>>
  /\ UNCHANGED <<volume, drum_machine, fx, quantizer, sample_rate>>

\* App::drum_preview: the keys z x c v b n m , are the tracks 0..7; any other
\* key returns at once.
PreviewKeys == <<"z", "x", "c", "v", "b", "n", "m", ",">>

\* drum_preview with the key's position in the list, counted from 1, as index.
drum_preview_from_one(dm, key) ==
  IF \E i \in 1..Len(PreviewKeys) : PreviewKeys[i] = key
    THEN trigger_now(dm, CHOOSE i \in 1..Len(PreviewKeys) : PreviewKeys[i] = key)
    ELSE dm

\* App::drum_preview on the drum machine.
drum_preview(dm, key) ==
  IF \E i \in 1..Len(PreviewKeys) : PreviewKeys[i] = key
    THEN trigger_now(dm, (CHOOSE i \in 1..Len(PreviewKeys) : PreviewKeys[i] = key) - 1)
    ELSE dm

\* App::drum_preview, explored while fewer than MaxHits drum voices sound.
DrumPreview(key) ==
  /\ drum_voices(drum_machine) < MaxHits
  /\ drum_machine' = drum_preview(drum_machine, key)
  /\ last_op' = "drum_preview"
  /\ result' = Some(key)
  /\ retired' = <<>>
  /\ UNCHANGED <<voices, bpm, sequencer, gap, steady, event_step, threads>>
  /\ UNCHANGED <<volume, wave_type, fx, quantizer, sample_rate>>

\* The keys the mixer is explored with: the first track, the last, and a key
\* that is no preview key.
MixKeys == {"z", ",", "q"}

MixInit == InitWith(<<>>, {12}, {Pattern(None, None, None)})

\* The drum bus under the master volume.
MixNext ==
  \/ VolumeUp
  \/ VolumeDown
  \/ \E k \in MixKeys : DrumPreview(k)
  \/ GenerateSample

MixSpec == MixInit /\ [][MixNext]_vars

\* The melodic bus: one key, the waveforms, the master volume.
BusNext ==
  \/ VolumeUp
  \/ VolumeDown
  \/ CycleWave
  \/ NoteOn(60)
  \/ NoteOff(60)
  \/ GenerateSample

BusSpec == MixInit /\ [][BusNext]_vars

\* App::drum_toggle_play
DrumTogglePlay ==
  /\ drum_machine' = drum_toggle_play(drum_machine)
  /\ app' = [app EXCEPT !.status_msg = IF drum_machine'.playing
                                          THEN Status("Drums: Playing", 0)
                                          ELSE Status("Drums: Stopped", 0)]
  /\ last_op' = "drum_toggle_play"
  /\ result' = None
  /\ retired' = <<>>
  /\ UNCHANGED <<voices, bpm, sequencer, gap, steady, event_step, lock, audio>>
  /\ UNCHANGED <<volume, wave_type, fx, quantizer, sample_rate>>

\* The two clocks under tempo changes: both transports, bpm up and down.
SyncNext ==
  \/ GenerateSample
  \/ BpmUp
  \/ BpmDown
  \/ SeqTogglePlay
  \/ DrumTogglePlay

SyncSpec == MixInit /\ [][SyncNext]_vars

\* -------------------------------------------------------------- quantizer

\* MIDI note numbers: the u8 pitches quantize is explored with.
MidiNotes == 0..127

\* self.scale = self.scale.next()
CycleScale ==
  /\ quantizer' = [quantizer EXCEPT !.scale = Scale_next(@)]
  /\ last_op' = "cycle_scale"
  /\ result' = None
  /\ retired' = <<>>
  /\ UNCHANGED <<voices, bpm, sequencer, gap, steady, event_step, threads>>
  /\ UNCHANGED <<volume, wave_type, drum_machine, fx, sample_rate>>

\* ScaleQuantizer::cycle_root
CycleRoot ==
  /\ quantizer' = cycle_root(quantizer)
  /\ last_op' = "cycle_root"
  /\ result' = None
  /\ retired' = <<>>
  /\ UNCHANGED <<voices, bpm, sequencer, gap, steady, event_step, threads>>
  /\ UNCHANGED <<volume, wave_type, drum_machine, fx, sample_rate>>

\* ScaleQuantizer::quantize(note): &self, the quantizer is not changed.
Quantize(note) ==
  /\ last_op' = "quantize"
  /\ result' = Some([note |-> note, out |-> quantize(quantizer, note)])
  /\ retired' = <<>>
  /\ UNCHANGED <<voices, bpm, sequencer, gap, steady, event_step, threads, mixer>>

QuantNext ==
  \/ CycleScale
  \/ CycleRoot
  \/ \E note \in MidiNotes : Quantize(note)

QuantSpec == MixInit /\ [][QuantNext]_vars

\* ----------------------------------------------------------- effect chain

\* The samples process is called with.
ChainSamples == -2..2

\* self.effects.push(Box::new(effect)): the field is public. Chains of up to
\* MaxChain effects are explored.
PushEffect(name) ==
  /\ Len(fx) < MaxChain
  /\ fx' = Append(unobserved(fx), Effect_new(name))
  /\ last_op' = "push"
  /\ result' = None
  /\ retired' = <<>>
  /\ UNCHANGED <<voices, bpm, sequencer, gap, steady, event_step, threads>>
  /\ UNCHANGED <<volume, wave_type, drum_machine, quantizer, sample_rate>>

\* EffectChain::process(sample); result keeps the chain before the call, the
\* sample passed and the sample returned.
ChainProcess(s) ==
  LET r == EffectChain_process(unobserved(fx), s)
  IN  /\ fx' = r.chain
      /\ last_op' = "process"
      /\ result' = Some([before |-> fx, input |-> s, out |-> r.out])
      /\ retired' = <<>>
      /\ UNCHANGED <<voices, bpm, sequencer, gap, steady, event_step, threads>>
      /\ UNCHANGED <<volume, wave_type, drum_machine, quantizer, sample_rate>>

\* EffectChain::reset_all
ChainResetAll ==
  /\ fx' = reset_all(unobserved(fx))
  /\ last_op' = "reset_all"
  /\ result' = Some([before |-> fx, input |-> 0, out |-> 0])
  /\ retired' = <<>>
  /\ UNCHANGED <<voices, bpm, sequencer, gap, steady, event_step, threads>>
  /\ UNCHANGED <<volume, wave_type, drum_machine, quantizer, sample_rate>>

ChainNext ==
  \/ \E name \in EffectNames : PushEffect(name)
  \/ \E s \in ChainSamples : ChainProcess(s)
  \/ ChainResetAll

ChainSpec == MixInit /\ [][ChainNext]_vars

\* ------------------------------------------------------------ drum editing

\* The drum cursor is explored on the first and the last track, and on the
\* first and the last step: the moves that wrap around.

\* App::drum_track_up, from the first track
DrumTrackUp ==
  /\ app.drum_track = 0
  /\ app' = [app EXCEPT !.drum_track = Len(drum_machine.tracks) - 1]
  /\ last_op' = "drum_track_up"
  /\ result' = None
  /\ retired' = <<>>
  /\ UNCHANGED <<voices, bpm, sequencer, gap, steady, event_step, lock, audio, mixer>>

\* App::drum_track_down, from the last track
DrumTrackDown ==
  /\ app.drum_track = Len(drum_machine.tracks) - 1
  /\ app' = [app EXCEPT !.drum_track = (@ + 1) % Len(drum_machine.tracks)]
  /\ last_op' = "drum_track_down"
  /\ result' = None
  /\ retired' = <<>>
  /\ UNCHANGED <<voices, bpm, sequencer, gap, steady, event_step, lock, audio, mixer>>

\* App::drum_step_left, from the first step
DrumStepLeft ==
  /\ app.drum_step = 0
  /\ app' = [app EXCEPT !.drum_step = drum_machine.num_steps - 1]
  /\ last_op' = "drum_step_left"
  /\ result' = None
  /\ retired' = <<>>
  /\ UNCHANGED <<voices, bpm, sequencer, gap, steady, event_step, lock, audio, mixer>>

\* App::drum_step_right, from the last step
DrumStepRight ==
  /\ app.drum_step = drum_machine.num_steps - 1
  /\ app' = [app EXCEPT !.drum_step = (@ + 1) % drum_machine.num_steps]
  /\ last_op' = "drum_step_right"
  /\ result' = None
  /\ retired' = <<>>
  /\ UNCHANGED <<voices, bpm, sequencer, gap, steady, event_step, lock, audio, mixer>>

\* drum_toggle_step with the cursor's two coordinates exchanged.
drum_toggle_step_swapped(dm, track, step) == toggle_step(dm, step, track)

\* App::drum_toggle_step on the drum machine, for the cursor (track, step).
drum_toggle_step(dm, track, step) == toggle_step(dm, track, step)

\* App::drum_toggle_step
DrumToggleStep ==
  /\ drum_machine' = drum_toggle_step(drum_machine, app.drum_track, app.drum_step)
  /\ last_op' = "drum_toggle_step"
  /\ result' = None
  /\ retired' = <<>>
  /\ UNCHANGED <<voices, bpm, sequencer, gap, steady, event_step, threads>>
  /\ UNCHANGED <<volume, wave_type, fx, quantizer, sample_rate>>

\* App::drum_clear_step
DrumClearStep ==
  /\ drum_machine' = drum_clear_step(drum_machine, app.drum_track, app.drum_step)
  /\ last_op' = "drum_clear_step"
  /\ result' = None
  /\ retired' = <<>>
  /\ UNCHANGED <<voices, bpm, sequencer, gap, steady, event_step, threads>>
  /\ UNCHANGED <<volume, wave_type, fx, quantizer, sample_rate>>

\* App::drum_toggle_mute
DrumToggleMute ==
  /\ drum_machine' = toggle_mute(drum_machine, app.drum_track)
  /\ app' = [app EXCEPT !.status_msg =
                IF drum_machine'.tracks[app.drum_track + 1].muted
                  THEN Status(" muted", drum_machine'.tracks[app.drum_track + 1].kind)
                  ELSE Status(" unmuted", drum_machine'.tracks[app.drum_track + 1].kind)]
  /\ last_op' = "drum_toggle_mute"
  /\ result' = None
  /\ retired' = <<>>
  /\ UNCHANGED <<voices, bpm, sequencer, gap, steady, event_step, lock, audio>>
  /\ UNCHANGED <<volume, wave_type, fx, quantizer, sample_rate>>

\* The drum machine some way into a pattern: the clock after 2 * step calls
\* of generate_sample while Playing (the step interval is 2 samples at the
\* rate 12), one more if the counter is 1, then Stopped or still Playing.
DrumClocks ==
  { [DrumMachine_new(12) EXCEPT !.current_step = step, !.sample_counter = cnt,
                                !.playing = play] :
      step \in {0, 9}, cnt \in {0, 1}, play \in BOOLEAN }

\* The state after Synth::new and App::new, but for the drum clock.
DrumInit ==
  /\ voices = <<>>
  /\ bpm = InitialBpm
  /\ sequencer = Sequencer_new(12)
  /\ last_op = "init"
  /\ result = None
  /\ retired = <<>>
  /\ gap = 0
  /\ steady = TRUE
  /\ event_step = 0
  /\ lock = "free"
  /\ app = [pressed_keys |-> {}, base_octave |-> InitialOctave,
            key_last_seen |-> {}, sent |-> <<>>, mode |-> "Play", enhanced |-> TRUE,
            status_msg |-> Status("", 0), seq_cursor |-> 0,
            drum_track |-> 0, drum_step |-> 0,
            todo |-> <<>>, held |-> None, dirty |-> 0]
  /\ audio = [pc |-> "idle", frames |-> 0]
  /\ volume = InitialVolume
  /\ wave_type = "Sine"
  /\ drum_machine \in DrumClocks
  /\ fx = EffectChain_new
  /\ quantizer = ScaleQuantizer_new
  /\ sample_rate = sequencer.sample_rate

\* The keys the drum editor is explored with: the last track's preview key
\* and a key that is no preview key.
DrumKeys == {",", "q"}

DrumNext ==
  \/ DrumTrackUp
  \/ DrumTrackDown
  \/ DrumStepLeft
  \/ DrumStepRight
  \/ DrumToggleStep
  \/ DrumClearStep
  \/ DrumToggleMute
  \/ DrumTogglePlay
  \/ \E k \in DrumKeys : DrumPreview(k)

DrumSpec == DrumInit /\ [][DrumNext]_vars

\* ------------------------------------------------------------ audio engine
\* main.rs run: Synth::new(44100.0), then AudioEngine::new, then the loop.

\* config.sample_rate().0 of the host's default output config.
HostRates == {44100, 48000}

\* AudioEngine::new has returned: the stream plays.
Started == last_op # "init"

\* AudioEngine::new(synth) on a host whose default output rate is `rate`:
\* `s.sample_rate = sample_rate` under the lock is its only write to the Synth.
AudioEngineNew(rate) ==
  /\ ~Started
  /\ sample_rate' = rate
  /\ last_op' = "audio_engine_new"
  /\ result' = None
  /\ retired' = <<>>
  /\ UNCHANGED <<voices, bpm, sequencer, gap, steady, event_step,
                 volume, wave_type, drum_machine, fx, quantizer>>
  /\ UNCHANGED threads

EngineGenerateSample == Started /\ GenerateSample

EngineTogglePlay == Started /\ SeqTogglePlay

\* The state Synth::new(44100.0) constructs.
EngineInit == InitWith(<<>>, {DeviceRate}, {Pattern(None, None, None)})

EngineNext ==
  \/ \E rate \in HostRates : AudioEngineNew(rate)
  \/ EngineGenerateSample
  \/ EngineTogglePlay

EngineSpec == EngineInit /\ [][EngineNext]_vars

\* ------------------------------------------------------- sequencer cursor
\* The App operations of the Synth Seq focus, each in one piece.

\* seq_cursor_left: if self.seq_cursor == 0 { n - 1 } else { self.seq_cursor - 1 }
cursor_left(cursor, n) == IF cursor = 0 THEN n - 1 ELSE cursor - 1

\* seq_cursor_right and seq_set_note: (cursor + 1) % n
cursor_right(cursor, n) == (cursor + 1) % n

\* `>` for `>=` in seq_cycle_steps.
cursor_after_cycle_above(cursor, n) == IF cursor > n THEN 0 ELSE cursor

\* seq_cycle_steps: if self.seq_cursor >= n { self.seq_cursor = 0; }
cursor_after_cycle(cursor, n) == IF cursor >= n THEN 0 ELSE cursor

\* The slots of the pattern that hold a note.
filled(s) == {i \in 1..Len(s.steps) : s.steps[i] # None}

\* App::seq_cursor_left
AppSeqCursorLeft ==
  /\ app' = [app EXCEPT !.seq_cursor = cursor_left(@, sequencer.num_steps)]
  /\ last_op' = "seq_cursor_left"
  /\ result' = None
  /\ retired' = <<>>
  /\ UNCHANGED <<voices, bpm, sequencer, gap, steady, event_step, lock, audio, mixer>>

\* App::seq_cursor_right
AppSeqCursorRight ==
  /\ app' = [app EXCEPT !.seq_cursor = cursor_right(@, sequencer.num_steps)]
  /\ last_op' = "seq_cursor_right"
  /\ result' = None
  /\ retired' = <<>>
  /\ UNCHANGED <<voices, bpm, sequencer, gap, steady, event_step, lock, audio, mixer>>

\* App::seq_set_note(key): a key that is no note key returns at once.  Explored
\* while the pattern holds at most MaxNotes notes.
AppSeqSetNote(key) ==
  LET note == key_to_note(key, app.base_octave)
  IN  /\ Cardinality(filled(sequencer) \ {app.seq_cursor + 1}) < MaxNotes
      /\ IF note = None
           THEN UNCHANGED <<sequencer, app>>
           ELSE /\ sequencer' = set_step(sequencer, app.seq_cursor, Unwrap(note))
                /\ app' = [app EXCEPT
                             !.status_msg = Status("Step : ", <<app.seq_cursor + 1, Unwrap(note)>>),
                             !.seq_cursor = cursor_right(@, sequencer'.num_steps)]
      /\ last_op' = "seq_set_note"
      /\ result' = note
      /\ retired' = <<>>
      /\ UNCHANGED <<voices, bpm, gap, steady, event_step, lock, audio, mixer>>

\* App::seq_clear_step
AppSeqClearStep ==
  /\ sequencer' = clear_step(sequencer, app.seq_cursor)
  /\ app' = [app EXCEPT !.status_msg = Status("Step  cleared", app.seq_cursor + 1)]
  /\ last_op' = "seq_clear_step"
  /\ result' = None
  /\ retired' = <<>>
  /\ UNCHANGED <<voices, bpm, gap, steady, event_step, lock, audio, mixer>>

\* App::seq_cycle_steps
AppSeqCycleSteps ==
  /\ sequencer' = cycle_num_steps(sequencer)
  /\ app' = [app EXCEPT !.seq_cursor = cursor_after_cycle(@, sequencer'.num_steps),
                        !.status_msg = Status("Seq steps: ", sequencer'.num_steps)]
  /\ last_op' = "seq_cycle_steps"
  /\ result' = None
  /\ retired' = <<>>
  /\ UNCHANGED <<voices, bpm, gap, steady, event_step, lock, audio, mixer>>

\* The keys the cursor is explored with: a note key and a key that is none.
CursorKeys == {"z", "a"}

CursorInit == InitWith(<<>>, {DeviceRate}, {Pattern(None, None, None)})

CursorNext ==
  \/ AppSeqCursorLeft
  \/ AppSeqCursorRight
  \/ \E k \in CursorKeys : AppSeqSetNote(k)
  \/ AppSeqClearStep
  \/ AppSeqCycleSteps

CursorSpec == CursorInit /\ [][CursorNext]_vars

\* ------------------------------------------------------------ lock protocol
\* The operations that take the lock more than once, or keep a guard in a
\* variable and drop it before they return, against the audio callback, under
\* a fair Mutex.  (seq_toggle_play, one guard to the end of the function, is
\* part of ThreadSpec.)

\* A read through a temporary guard: self.synth.lock().unwrap().<field>
locked_read == locked_call("snapshot", None)

\* drum_toggle_mute with the first guard kept in a variable while the two
\* reads lock again.
drum_toggle_mute_nested ==
  <<Step("lock", None, None), Step("toggle_mute", None, None)>> \o
  locked_read \o locked_read \o
  <<Step("unlock", None, None), Step("status_mute", None, None)>>

\* App::drum_toggle_mute: toggle_mute, the read of muted and the read of kind,
\* each through a guard of its own, then the status message.
drum_toggle_mute ==
  locked_call("toggle_mute", None) \o locked_read \o locked_read \o
  <<Step("status_mute", None, None)>>

\* App::drum_toggle_play: toggle_play and the read of playing, each through a
\* guard of its own, then the status message.
drum_toggle_play_steps ==
  locked_call("drum_toggle_play", None) \o locked_read \o
  <<Step("status_play", None, None)>>

\* App::seq_cycle_steps: cycle_num_steps and the read of num_steps through the
\* guard `s`, drop(s), then the cursor and the status message.
seq_cycle_steps ==
  locked_call("cycle_num_steps", None) \o <<Step("cursor", None, None)>>

\* ui::draw_status: app.wave_name(), app.volume() and the read of bpm.
draw_status == locked_read \o locked_read \o locked_read

AppDrumToggleMute == Begin(drum_toggle_mute)

UiDrawStatus == Begin(draw_status)

AppDrumTogglePlay == Begin(drum_toggle_play_steps)

AppSeqCycleStepsBegin == Begin(seq_cycle_steps)

\* self.synth.lock().unwrap().drum_machine.toggle_play()
CtlDrumTogglePlay ==
  /\ NextStep("drum_toggle_play")
  /\ drum_machine' = drum_toggle_play(drum_machine)
  /\ last_op' = "drum_toggle_play"
  /\ result' = None
  /\ retired' = <<>>
  /\ Advance(TRUE)
  /\ UNCHANGED <<voices, bpm, sequencer, gap, steady, event_step, lock, audio>>
  /\ UNCHANGED <<volume, wave_type, fx, quantizer, sample_rate>>

\* self.status_msg = if playing { .. } else { .. }: only the control thread
\* writes `playing`, so the value read is the drum machine's.
CtlStatusPlay ==
  /\ NextStep("status_play")
  /\ app' = [app EXCEPT !.todo = Tail(@),
                        !.status_msg = IF drum_machine.playing
                                         THEN Status("Drums: Playing", 0)
                                         ELSE Status("Drums: Stopped", 0)]
  /\ UNCHANGED <<synth_vars, lock, audio>>

\* s.sequencer.cycle_num_steps(); let n = s.sequencer.num_steps;
CtlCycleNumSteps ==
  /\ NextStep("cycle_num_steps")
  /\ sequencer' = cycle_num_steps(sequencer)
  /\ last_op' = "cycle_num_steps"
  /\ result' = None
  /\ retired' = <<>>
  /\ Advance(TRUE)
  /\ UNCHANGED <<voices, bpm, gap, steady, event_step, lock, audio, mixer>>

\* if self.seq_cursor >= n { self.seq_cursor = 0; } and the status message:
\* only the control thread writes num_steps, so n is the sequencer's.
CtlCursor ==
  /\ NextStep("cursor")
  /\ app' = [app EXCEPT !.todo = Tail(@),
                        !.seq_cursor = cursor_after_cycle(@, sequencer.num_steps),
                        !.status_msg = Status("Seq steps: ", sequencer.num_steps)]
  /\ UNCHANGED <<synth_vars, lock, audio>>

\* self.synth.lock().unwrap().drum_machine.toggle_mute(track)
CtlToggleMute ==
  /\ NextStep("toggle_mute")
  /\ drum_machine' = toggle_mute(drum_machine, app.drum_track)
  /\ last_op' = "toggle_mute"
  /\ result' = None
  /\ retired' = <<>>
  /\ Advance(TRUE)
  /\ UNCHANGED <<voices, bpm, sequencer, gap, steady, event_step, lock, audio>>
  /\ UNCHANGED <<volume, wave_type, fx, quantizer, sample_rate>>

\* self.status_msg = if muted { .. } else { .. }: only the control thread
\* writes `muted`, so the value read is the track's.
CtlStatusMute ==
  /\ NextStep("status_mute")
  /\ app' = [app EXCEPT !.todo = Tail(@),
                        !.status_msg =
                          IF drum_machine.tracks[app.drum_track + 1].muted
                            THEN Status(" muted", drum_machine.tracks[app.drum_track + 1].kind)
                            ELSE Status(" unmuted", drum_machine.tracks[app.drum_track + 1].kind)]
  /\ UNCHANGED <<synth_vars, lock, audio>>

\* An empty pattern of 8 slots at a step interval of one sample.
LockInit == InitWith(<<>>, {8}, {PatternOf(8, None, None, None)})

LockNext ==
  \/ AppDrumToggleMute
  \/ AppDrumTogglePlay
  \/ AppSeqCycleStepsBegin
  \/ UiDrawStatus
  \/ CtlLock
  \/ CtlToggleMute
  \/ CtlStatusMute
  \/ CtlDrumTogglePlay
  \/ CtlStatusPlay
  \/ CtlCycleNumSteps
  \/ CtlCursor
  \/ CtlSnapshot
  \/ CtlUnlock
  \/ CallbackLock
  \/ CallbackFrame
  \/ CallbackUnlock

\* The steps a thread takes without waiting for the other one.
CtlRuns ==
  \/ CtlToggleMute \/ CtlStatusMute \/ CtlDrumTogglePlay \/ CtlStatusPlay
  \/ CtlCycleNumSteps \/ CtlCursor
  \/ CtlSnapshot \/ CtlUnlock

CallbackRuns == CallbackFrame \/ CallbackUnlock

\* Both threads keep running, the stream keeps calling the callback, and the
\* Mutex is fair: a thread that finds it free again and again gets it.
LockSpec ==
  /\ LockInit
  /\ [][LockNext]_vars
  /\ WF_vars(CtlRuns)
  /\ WF_vars(CallbackRuns)
  /\ SF_vars(CtlLock)
  /\ SF_vars(CallbackLock)

\* ------------------------------------------------------------ audio buffer
\* The callback of build_stream on its output buffer `data`: interleaved
\* frames of `channels` samples each, of the stream's sample format T.

\* config.channels() and config.sample_format() of the model's hosts.
Channels == {1, 2}
Formats == {"F32", "I16"}

\* A slot of `data` the callback has not written.
Stale == "stale"

\* T::from_sample(sample) for T = f32 (the sample itself, in millionths) and
\* T = i16 (sample * 32768 cut to a whole number, saturating).
from_sample(format, s) ==
  IF format = "F32" THEN s
  ELSE LET q == Abs(s) \div 1000
           r == Abs(s) % 1000
           \* |s| * 32768 / SampleOne, in two steps that stay within 32 bits
           x == (q * 32768 + (r * 32768) \div 1000) \div 1000
       IN  IF s < 0 THEN -Min(x, 32768) ELSE Min(x, 32767)

\* A frame loop over the samples of the buffer: 0..data.len().
frame_count_per_sample(len, channels) == len

\* let frame_count = data.len() / channels;
frame_count(len, channels) == len \div channels

\* for ch in 0..channels { data[frame * channels + ch] = value; }
write_frame(data, frame, channels, value) ==
  [i \in DOMAIN data |->
     IF i - 1 >= frame * channels /\ i - 1 < frame * channels + channels
       THEN value ELSE data[i]]

\* The position of the sequencer's clock in its pattern, in samples.
Clock(s) == s.current_step * Max(samples_per_step(s, bpm), 1) + s.sample_counter

\* App::cycle_wave through its guard.
cycle_wave == locked_call("cycle_wave", None)

AppCycleWave == Begin(cycle_wave)

\* s.wave_type = s.wave_type.next(); self.status_msg = format!("Wave: {}", ..)
CtlCycleWave ==
  /\ NextStep("cycle_wave")
  /\ wave_type' = WaveType_next(wave_type)
  /\ app' = [app EXCEPT !.todo = Tail(@), !.dirty = after_change(@, TRUE),
                        !.status_msg = Status("Wave: ", wave_type')]
  /\ last_op' = "cycle_wave"
  /\ result' = None
  /\ retired' = <<>>
  /\ UNCHANGED <<voices, bpm, sequencer, gap, steady, event_step, lock, audio>>
  /\ UNCHANGED <<volume, drum_machine, fx, quantizer, sample_rate>>

\* The callback is called with a buffer of whole frames: it locks the Synth
\* and computes frame_count.
BufferLock ==
  /\ audio.pc = "idle"
  /\ can_lock(lock)
  /\ lock' = "audio"
  /\ \E n \in 1..BufferFrames, c \in Channels, f \in Formats :
       audio' = [pc |-> "frames", frames |-> frame_count(n * c, c),
                 channels |-> c, format |-> f,
                 data |-> [i \in 1..(n * c) |-> Stale],
                 samples |-> <<>>, start |-> Clock(sequencer)]
  /\ UNCHANGED <<synth_vars, app>>

\* One turn of the frame loop: generate_sample, from_sample, and the value
\* written to every channel of the frame.
BufferFrame ==
  /\ audio.pc = "frames"
  /\ audio.frames > 0
  /\ Synth_generate_sample
  /\ audio' = [audio EXCEPT
                 !.frames = @ - 1,
                 !.samples = Append(@, generated.out),
                 !.data = write_frame(@, Len(audio.samples), audio.channels,
                                      from_sample(audio.format, generated.out))]
  /\ app' = [app EXCEPT !.dirty = IF app.todo # <<>> /\ @ = 1 THEN 2 ELSE @]
  /\ UNCHANGED lock

\* A note in slot 0 of an 8-slot pattern, at a step interval of two samples.
BufferInit == InitWith(<<>>, {12}, {PatternOf(8, Some(60), None, None)})

BufferNext ==
  \/ AppSeqTogglePlay
  \/ AppCycleWave
  \/ CtlLock
  \/ CtlTogglePlay
  \/ CtlNoteOffHeld
  \/ CtlCycleWave
  \/ CtlUnlock
  \/ BufferLock
  \/ BufferFrame
  \/ CallbackUnlock

BufferSpec == BufferInit /\ [][BufferNext]_vars

\* --------------------------------------------------------------- keyboard
\* The run loop of main.rs in Keyboard focus and the App operations it calls,
\* each in one piece: key events (press, repeat, release), the arrows, Tab,
\* FocusLost, and tick_fallback_release at the top of the loop.

\* The keys of the keyboard model: two keys of one pitch (q and , at every
\* octave) and a key that is no note key.
KbdKeys == {"q", ",", "a"}

\* key_press without its test of pressed_keys.
key_press_note_always(pressed, key, base_octave) == key_to_note(key, base_octave)

\* App::key_press / key_press_fallback: the note_on the call sends, if any.
key_press_note(pressed, key, base_octave) ==
  IF key \in pressed THEN None ELSE key_to_note(key, base_octave)

\* App::key_release: the note_off the call sends, if any.
key_release_note(pressed, key, base_octave) ==
  IF key \notin pressed THEN None ELSE key_to_note(key, base_octave)

\* The observation `sent` with key k pressed, and with the keys ks released.
sent_with(sent, k, note) ==
  [j \in DOMAIN sent \cup {k} |-> IF j = k THEN note ELSE sent[j]]

sent_without(sent, ks) == [j \in DOMAIN sent \ ks |-> sent[j]]

\* supports_keyboard_enhancement() is false: the loop runs in fallback mode.
RunFallback ==
  /\ last_op = "init"
  /\ app' = [app EXCEPT !.enhanced = FALSE]
  /\ last_op' = "run"
  /\ result' = None
  /\ retired' = <<>>
  /\ UNCHANGED <<voices, bpm, sequencer, gap, steady, event_step, lock, audio, mixer>>

\* The body key_press and key_press_fallback share.
Press(key, name, seen) ==
  LET note == key_press_note(app.pressed_keys, key, app.base_octave)
  IN  /\ app.mode = "Play"
      /\ app' = [app EXCEPT
                   !.key_last_seen = seen,
                   !.pressed_keys = @ \cup {key},
                   !.sent = IF key \in app.pressed_keys THEN @ ELSE sent_with(@, key, note)]
      /\ voices' = IF note # None THEN note_on(voices, Unwrap(note)) ELSE voices
      /\ last_op' = name
      /\ result' = Some([key |-> key, note |-> note])
      /\ retired' = <<>>
      /\ UNCHANGED <<bpm, sequencer, gap, steady, event_step, lock, audio, mixer>>

\* A Press event in enhanced mode: App::key_press.
KbdKeyPress(key) == app.enhanced /\ Press(key, "key_press", app.key_last_seen)

\* A Repeat event, or a Press event in fallback mode: App::key_press_fallback.
KbdKeyPressFallback(key) ==
  Press(key, "key_press_fallback", app.key_last_seen \cup {key})

\* A Release event in Keyboard focus (whatever the mode of the loop, which
\* main.rs does not test there): App::key_release.
KbdKeyRelease(key) ==
  LET note == key_release_note(app.pressed_keys, key, app.base_octave)
  IN  /\ app.mode = "Play"
      /\ app' = [app EXCEPT !.pressed_keys = @ \ {key}, !.sent = sent_without(@, {key})]
      /\ voices' = IF note # None THEN note_off(voices, Unwrap(note)) ELSE voices
      /\ last_op' = "key_release"
      /\ result' = Some([key |-> key, note |-> note])
      /\ retired' = <<>>
      /\ UNCHANGED <<bpm, sequencer, gap, steady, event_step, lock, audio, mixer>>

\* App::tick_fallback_release: the keys that map to a note and were last seen
\* 600 ms ago or more (any of them, as time goes) or never.
KbdTickFallbackRelease ==
  LET notes == {k \in app.pressed_keys : key_to_note(k, app.base_octave) # None}
  IN  /\ ~app.enhanced
      /\ \E stale \in SUBSET notes :
           /\ notes \ app.key_last_seen \subseteq stale
           /\ app' = [app EXCEPT !.pressed_keys = @ \ stale,
                                 !.key_last_seen = @ \ stale,
                                 !.sent = sent_without(@, stale)]
           /\ voices' = released(voices, stale, app.base_octave)
      /\ last_op' = "tick_fallback_release"
      /\ result' = None
      /\ retired' = <<>>
      /\ UNCHANGED <<bpm, sequencer, gap, steady, event_step, lock, audio, mixer>>

\* Event::FocusLost: App::release_all.
KbdReleaseAll ==
  /\ voices' = released(voices, app.pressed_keys, app.base_octave)
  /\ app' = [app EXCEPT !.pressed_keys = {}, !.key_last_seen = {}, !.sent = <<>>]
  /\ last_op' = "release_all"
  /\ result' = None
  /\ retired' = <<>>
  /\ UNCHANGED <<bpm, sequencer, gap, steady, event_step, lock, audio, mixer>>

\* Tab or F2: App::toggle_mode.
KbdToggleMode ==
  LET next == CASE app.mode = "Play" -> "SynthSeq" [] app.mode = "SynthSeq" -> "Drums"
                [] OTHER -> "Play"
  IN  /\ voices' = released(voices, app.pressed_keys, app.base_octave)
      /\ app' = [app EXCEPT !.pressed_keys = {}, !.key_last_seen = {}, !.sent = <<>>,
                            !.mode = next,
                            !.status_msg = Status("Focus: ", next)]
      /\ last_op' = "toggle_mode"
      /\ result' = None
      /\ retired' = <<>>
      /\ UNCHANGED <<bpm, sequencer, gap, steady, event_step, lock, audio, mixer>>

\* Right / Left in Keyboard focus, explored between the initial octave and
\* the one above it.
KbdOctaveUp ==
  /\ app.mode = "Play"
  /\ app.base_octave = InitialOctave
  /\ AppOctaveUp

KbdOctaveDown ==
  /\ app.mode = "Play"
  /\ app.base_octave > InitialOctave
  /\ AppOctaveDown

KbdInit == InitWith(<<>>, {DeviceRate}, {Pattern(None, None, None)})

KbdNext ==
  \/ RunFallback
  \/ \E k \in KbdKeys : KbdKeyPress(k)
  \/ \E k \in KbdKeys : KbdKeyPressFallback(k)
  \/ \E k \in KbdKeys : KbdKeyRelease(k)
  \/ KbdTickFallbackRelease
  \/ KbdReleaseAll
  \/ KbdToggleMode
  \/ KbdOctaveUp
  \/ KbdOctaveDown
  \/ GenerateSample

KbdSpec == KbdInit /\ [][KbdNext]_vars

\* ------------------------------------------------------------------ claims

Fresh(v) == v.stage = "Attack" /\ v.level = 0 /\ v.phase = 0 /\ v.release_level = 0

\* C1: every active voice is the voice of the pitch it is stored under (one
\* Voice per pitch), and note_on(p) for a pitch that is already sounding, in
\* whatever stage, replaces that voice by a fresh one (Attack, level 0,
\* phase 0), leaving the set of active pitches and every other voice as it was.
C1_OneVoicePerPitch ==
  /\ [](\A p \in DOMAIN voices : voices[p].frequency = note_to_freq(p))
  /\ [][\A p \in Pitches :
          (NoteOn(p) /\ p \in DOMAIN voices) =>
            /\ Fresh(voices'[p])
            /\ DOMAIN voices' = DOMAIN voices
            /\ \A q \in DOMAIN voices \ {p} : voices'[q] = voices[q]]_vars

\* A sustaining voice, half a cycle into its phase, has just been displaced by
\* note_on while the other pitch keeps sounding.
C1_Witness ==
  /\ last_op = "note_on"
  /\ result = Some("Sustain")
  /\ Cardinality(DOMAIN voices) = 2
  /\ \E p \in DOMAIN voices : Fresh(voices[p])
  /\ \E q \in DOMAIN voices : voices[q].stage = "Decay" /\ voices[q].phase # 0

InRelease(p) == p \in DOMAIN voices /\ voices[p].stage = "Release"

\* The step is a note-on for p: the keyboard's, or a step-boundary event's.
NoteOnStep(p) ==
  \/ last_op' = "note_on" /\ p \in DOMAIN voices' /\ Fresh(voices'[p])
  \/ /\ last_op' = "generate_sample"
     /\ result' # None
     /\ Unwrap(result').note_on = Some(p)

\* C2: after note_on(p) and note_off(p), whatever was generated in between,
\* and with no further note_on(p): the level of the voice never increases
\* while it is in Release; after finitely many samples the voice is dropped
\* from the active set, and the level it is dropped with is exactly 0; and p
\* comes back into the active set only by a note-on.
C2_ReleaseDrains ==
  /\ [][\A p \in Pitches :
          (InRelease(p) /\ InRelease(p)') => voices'[p].level <= voices[p].level]_vars
  /\ [][\A p \in DOMAIN retired' :
          retired'[p].stage = "Off" /\ retired'[p].level = 0]_vars
  /\ \A p \in Pitches :
        InRelease(p) ~> (p \notin DOMAIN voices \/ voices[p].stage = "Attack")
  /\ [][\A p \in Pitches :
          (p \notin DOMAIN voices /\ p \in DOMAIN voices') => NoteOnStep(p)]_vars

\* A voice released from the middle of its decay has drained and been dropped
\* by generate_sample while the other pitch is still in Release.
C2_Witness ==
  /\ last_op = "generate_sample"
  /\ \E p \in DOMAIN retired : retired[p].release_level = LevelOne - 1
  /\ \E q \in Pitches : InRelease(q) /\ voices[q].level < voices[q].release_level

StageRank(st) ==
  CASE st = "Attack" -> 0 [] st = "Decay" -> 1 [] st = "Sustain" -> 2
    [] st = "Release" -> 3 [] st = "Off" -> 4

\* The stage changes a Voice may make in one call.
StageMoves ==
  {<<"Attack", "Decay">>, <<"Decay", "Sustain">>, <<"Release", "Off">>,
   <<"Attack", "Release">>, <<"Decay", "Release">>, <<"Sustain", "Release">>}

\* C3: a Voice moves only forward through its stages (Attack to Decay, Decay
\* to Sustain, any stage but Off to Release, Release to Off); once Off it
\* stays Off: release() leaves it as it is and next_sample leaves it as it is
\* and returns silence.
C3_StagesOnlyForward ==
  [][\A p \in Pitches :
       LET v == voices[p]
           w == voices'[p]
       IN  /\ StageRank(w.stage) >= StageRank(v.stage)
           /\ w.stage # v.stage => <<v.stage, w.stage>> \in StageMoves
           /\ v.stage = "Off" =>
                 /\ w = v
                 /\ VoiceNextSample(p) => Unwrap(result').out = 0]_vars

\* next_sample has just returned a sample that is not silence for a
\* sustaining voice, while the other voice has run through to Off.
C3_Witness ==
  /\ last_op = "next_sample"
  /\ \E p \in Pitches : voices[p].stage = "Off" /\ voices[p].level = 0
  /\ \E q \in Pitches :
       /\ voices[q].stage = "Sustain"
       /\ result = Some([pitch |-> q, out |-> 2 * voices[q].level])
       /\ voices[q].level > 0

\* The step interval in force: samples_per_step(bpm).max(1).
Interval == Max(samples_per_step(sequencer, bpm), 1)

Fired == result' # None

\* C4 as stated: at 44100 Hz, bpm 120 and 16 steps, while Playing an event
\* fires on the first tick and then exactly every 5512 ticks, and while
\* Stopped tick returns no event.
C4_Every5512Ticks ==
  [][GenerateSample =>
       IF sequencer.playing THEN Fired <=> gap \in {0, 5512}
                            ELSE ~Fired]_vars

\* C4: at 44100 Hz, bpm 120 and 16 steps the step interval is 5513 samples
\* (44100 * 60 / (120 * 4) = 5512.5, which round() takes to 5513): while
\* Playing an event fires on the first tick and then exactly every 5513
\* ticks, and while Stopped tick returns no event.
C4_Every5513Ticks ==
  [][GenerateSample =>
       IF sequencer.playing THEN Fired <=> gap \in {0, 5513}
                            ELSE ~Fired]_vars

\* 5513 ticks after the event of step 0, about to fire the event of step 1.
C4_Witness ==
  /\ sequencer.playing
  /\ sequencer.sample_rate = 44100 /\ bpm = 120 /\ sequencer.num_steps = 16
  /\ gap = 5513
  /\ event_step = 0 /\ sequencer.current_step = 1

\* C5: while Playing at a constant bpm with step interval N >= 1, an event
\* fires on the first tick and then on exactly every N-th tick, and
\* current_step has advanced by exactly one (mod num_steps) from one event to
\* the next.
C5_OneEventPerInterval ==
  [][(GenerateSample /\ sequencer.playing /\ steady) =>
       /\ Fired <=> gap \in {0, Interval}
       /\ (Fired /\ gap > 0) =>
             sequencer.current_step = (event_step + 1) % sequencer.num_steps]_vars

\* With an interval of one sample, the fourth event in a row has just fired.
C5_Witness ==
  /\ last_op = "generate_sample"
  /\ result # None
  /\ steady
  /\ Interval = 1
  /\ event_step = 3

PrevStep == (sequencer.current_step + sequencer.num_steps - 1) % sequencer.num_steps

\* C6: a step-boundary event carries note_off = the slot before current_step
\* (mod num_steps) and note_on = the slot at current_step, as they are at the
\* tick that fires it, and the Synth applies the note-off first: when both
\* slots hold the same pitch p, the voice for p after that sample is a voice
\* started in that sample (one sample into its attack, never released).
C6_EventAndOrder ==
  [][(GenerateSample /\ Fired) =>
       /\ Unwrap(result').note_off = Slot(sequencer, PrevStep)
       /\ Unwrap(result').note_on = Slot(sequencer, sequencer.current_step)
       /\ \A p \in Pitches :
            (Slot(sequencer, PrevStep) = Some(p) /\
             Slot(sequencer, sequencer.current_step) = Some(p)) =>
              /\ p \in DOMAIN voices'
              /\ voices'[p].stage \in {"Attack", "Decay"}
              /\ voices'[p].release_level = 0
              /\ voices'[p].level = Min(LevelOne, CeilDiv(LevelOne, attack))]_vars

\* The event of step 1 has fired on a pattern holding 60 in slots 0 and 1.
C6_Witness ==
  /\ last_op = "generate_sample"
  /\ result = Some([note_off |-> Some(60), note_on |-> Some(60)])
  /\ event_step = 1
  /\ 60 \in DOMAIN voices

\* C7: toggle_play from Stopped sets playing, resets the sample counter to 0,
\* returns no pitch and leaves current_step and the pattern as they are; and
\* the first tick after it returns the event of the slot at current_step.
C7_StartAligned ==
  [][/\ (SeqTogglePlay /\ ~sequencer.playing) =>
          /\ sequencer'.playing
          /\ sequencer'.sample_counter = 0
          /\ result' = None
          /\ sequencer'.current_step = sequencer.current_step
          /\ sequencer'.steps = sequencer.steps
     /\ (GenerateSample /\ sequencer.playing /\ gap = 0) =>
          /\ Fired
          /\ Unwrap(result').note_on = Slot(sequencer, sequencer.current_step)]_vars

\* Resumed in the middle of step 1, whose slot holds a pitch.
C7_Witness ==
  /\ last_op = "seq_toggle_play"
  /\ sequencer.playing
  /\ sequencer.current_step = 1
  /\ Slot(sequencer, 1) # None
  /\ event_step = 1

\* C8: toggle_play from Playing clears playing, returns exactly the slot at
\* current_step (a pitch, or nothing when the slot is empty) and leaves
\* current_step, the sample counter and the pattern as they are.
C8_PauseReturnsCurrentSlot ==
  [][(SeqTogglePlay /\ sequencer.playing) =>
       /\ ~sequencer'.playing
       /\ result' = Slot(sequencer, sequencer.current_step)
       /\ sequencer'.current_step = sequencer.current_step
       /\ sequencer'.sample_counter = sequencer.sample_counter
       /\ sequencer'.steps = sequencer.steps]_vars

\* Paused in the middle of step 1: its pitch is returned.
C8_Witness ==
  /\ last_op = "seq_toggle_play"
  /\ ~sequencer.playing
  /\ sequencer.current_step = 1
  /\ sequencer.sample_counter > 0
  /\ result = Some(72)

\* C9 as stated: with the keyboard idle and the pattern not edited, right
\* after seq_toggle_play has paused the sequencer no voice is left in Attack,
\* Decay or Sustain, at whatever point of the step the pause comes.
C9_PauseReleasesHeldVoice ==
  (last_op = "seq_toggle_play" /\ ~sequencer.playing) =>
    \A p \in DOMAIN voices : voices[p].stage = "Release"

\* C10: a bpm change takes effect on the next tick: a tick while Playing ends
\* the step exactly when the samples elapsed in the step, this one included,
\* are >= the interval computed from the bpm at that tick; it then resets
\* the counter and advances current_step by one; otherwise current_step stays.
C10_BpmAppliesNextTick ==
  [][(GenerateSample /\ sequencer.playing) =>
       IF gap' >= Interval
         THEN /\ sequencer'.sample_counter = 0
              /\ sequencer'.current_step =
                   (sequencer.current_step + 1) % sequencer.num_steps
         ELSE /\ sequencer'.sample_counter = gap'
              /\ sequencer'.current_step = sequencer.current_step]_vars

\* bpm_up has just shortened the interval to no more than the samples already
\* elapsed in the step.
C10_Witness ==
  /\ last_op = "bpm_up"
  /\ sequencer.playing
  /\ gap >= Interval
  /\ gap > 0

\* C11: cycle_num_steps moves num_steps along 8 -> 16 -> 24 -> 32 -> 8; a slot
\* that exists before and after keeps its content at its index, every new
\* slot is empty, and after the shrink to 8 only slots 0..7 are left;
\* current_step becomes 0 exactly when it is >= the new length and is
\* unchanged otherwise; playing and the sample counter are unchanged.
C11_CycleNumSteps ==
  [][CycleNumSteps =>
       LET old == sequencer
           new == sequencer'
       IN  /\ <<old.num_steps, new.num_steps>> \in
                {<<8, 16>>, <<16, 24>>, <<24, 32>>, <<32, 8>>}
           /\ Len(new.steps) = new.num_steps
           /\ \A i \in 1..new.num_steps :
                new.steps[i] = IF i <= Len(old.steps) THEN old.steps[i] ELSE None
           /\ new.current_step =
                IF old.current_step >= new.num_steps THEN 0 ELSE old.current_step
           /\ new.playing = old.playing
           /\ new.sample_counter = old.sample_counter]_vars

\* The pattern has just shrunk from 32 to 8 in the middle of step 8 or later
\* of a playing sequencer: slot 0 kept its note, current_step went back to 0
\* and the counter kept its value.
C11_Witness ==
  /\ last_op = "cycle_num_steps"
  /\ sequencer.num_steps = 8
  /\ sequencer.steps[1] = Some(60)
  /\ sequencer.playing
  /\ sequencer.sample_counter = 1
  /\ event_step >= 8
  /\ sequencer.current_step = 0

\* The sequencer but for its pattern.
Transport(s) == <<s.num_steps, s.current_step, s.playing, s.sample_counter, s.sample_rate>>

\* C12: set_step(i, note) and clear_step(i) with i >= the pattern length do
\* not fault and leave the pattern, num_steps, current_step, playing and the
\* counter as they were; with i in range they change slot i only (to the note,
\* to empty).
C12_EditsStayInPattern ==
  /\ [](\A i \in EditIndexes : ENABLED ClearStep(i)
                               /\ \A n \in EditNotes : ENABLED SetStep(i, n))
  /\ [][\A i \in EditIndexes :
          LET wrote(slot) ==
                /\ Transport(sequencer') = Transport(sequencer)
                /\ Len(sequencer'.steps) = Len(sequencer.steps)
                /\ \A j \in 1..Len(sequencer.steps) :
                     sequencer'.steps[j] = IF j = i + 1 THEN slot ELSE sequencer.steps[j]
              same == sequencer' = sequencer
          IN  /\ ClearStep(i) => IF i >= Len(sequencer.steps) THEN same ELSE wrote(None)
              /\ \A n \in EditNotes :
                   SetStep(i, n) =>
                     IF i >= Len(sequencer.steps) THEN same ELSE wrote(Some(n))]_vars

\* set_step has just been called on a pattern of 8 slots that is still empty:
\* the index was 8 or 32, outside the pattern.
C12_Witness ==
  /\ last_op = "set_step"
  /\ sequencer.num_steps = 8
  /\ \A j \in 1..Len(sequencer.steps) : sequencer.steps[j] = None

\* C13: whatever tick, toggle_play, cycle_num_steps, set_step and clear_step
\* did so far, num_steps is one of 8, 16, 24, 32, the pattern has num_steps
\* slots and current_step < num_steps; so the two slots tick reads, the
\* previous step's and the current step's, are inside the pattern.
C13_StepInsidePattern ==
  LET s    == sequencer
      prev == IF s.current_step = 0 THEN s.num_steps - 1 ELSE s.current_step - 1
  IN  /\ s.num_steps \in {8, 16, 24, 32}
      /\ Len(s.steps) = s.num_steps
      /\ s.current_step < s.num_steps
      /\ {prev + 1, s.current_step + 1} \subseteq DOMAIN s.steps

\* tick has just fired the event of step 0 of a pattern of 32 slots, reading
\* slot 31 for the note-off, after the pattern was 8 slots long with a note
\* in slot 7.
C13_Witness ==
  /\ last_op = "generate_sample"
  /\ result # None
  /\ event_step = 0
  /\ sequencer.num_steps = 32
  /\ sequencer.steps[8] = Some(60)
  /\ sequencer.steps[32] = None

\* The step reads or writes the Synth from the control thread.
ControlAccess ==
  CtlNoteOn \/ CtlNoteOff \/ CtlTogglePlay \/ CtlNoteOffHeld \/ CtlSnapshot

C15_NoSampleInsideOperation == app.dirty # 3

\* C16: note_off(p) with no voice for p active changes nothing in the Synth;
\* with a voice for p active and not Off it sets that voice's release_level
\* to its level and its stage to Release and leaves its level, phase and
\* frequency, the set of active pitches and every other voice as they were.
C16_NoteOffFrame ==
  [][\A p \in Pitches :
       NoteOff(p) =>
         /\ bpm' = bpm /\ sequencer' = sequencer
         /\ DOMAIN voices' = DOMAIN voices
         /\ \A q \in DOMAIN voices \ {p} : voices'[q] = voices[q]
         /\ (p \in DOMAIN voices /\ voices[p].stage # "Off") =>
              /\ voices'[p].stage = "Release"
              /\ voices'[p].release_level = voices[p].level
              /\ voices'[p].level = voices[p].level
              /\ voices'[p].phase = voices[p].phase
              /\ voices'[p].frequency = voices[p].frequency]_vars

\* note_off has just released a voice that is part of a cycle into its phase
\* and above level 0, while the other pitch is sustaining.
C16_Witness ==
  /\ last_op = "note_off"
  /\ \E p \in DOMAIN voices :
       /\ voices[p].stage = "Release"
       /\ voices[p].level > 0
       /\ voices[p].release_level = voices[p].level
       /\ voices[p].phase # 0
       /\ \E q \in DOMAIN voices \ {p} : voices[q].stage = "Sustain"

\* C17 as stated: while a voice stays in Release its release_level does not
\* change, whatever note_off arrives for its pitch (a second key of the same
\* pitch, a sequencer note-off, a pause).
C17_ReleaseLevelFixed ==
  [][\A p \in Pitches :
       (InRelease(p) /\ InRelease(p)') =>
         voices'[p].release_level = voices[p].release_level]_vars

\* C18: between operations no active voice is Off: generate_sample removes
\* the voices that reached Off in that call (and only those), note_on inserts
\* Attack voices, note_off does not produce Off; so active_notes() reports
\* only voices that are still sounding.
C18_NoOffVoiceActive ==
  /\ [](\A p \in active_notes(voices) : voices[p].stage # "Off")
  /\ [][GenerateSample =>
          /\ \A p \in DOMAIN retired' : retired'[p].stage = "Off"
          /\ \A p \in DOMAIN voices : p \in DOMAIN voices' \/ p \in DOMAIN retired']_vars
  /\ [][\A p \in Pitches : NoteOn(p) => voices'[p].stage = "Attack"]_vars
  /\ [][\A p \in Pitches : NoteOff(p) => \A q \in DOMAIN voices' : voices'[q].stage # "Off"]_vars

\* generate_sample has just dropped one voice in the call in which it reached
\* Off, and active_notes() reports the other, which is still in its attack.
C18_Witness ==
  /\ last_op = "generate_sample"
  /\ Cardinality(DOMAIN retired) = 1
  /\ Cardinality(active_notes(voices)) = 1
  /\ \E p \in active_notes(voices) : voices[p].stage = "Attack" /\ voices[p].level > 0

C20_BpmWithinRange ==
  /\ [](bpm >= BpmMin /\ bpm <= BpmMax)
  /\ [](samples_per_step(sequencer, bpm) >= 1 /\ Interval >= 1)
  /\ [][(AppBpmUp /\ bpm = BpmMax) => bpm' = BpmMax]_vars
  /\ [][(AppBpmDown /\ bpm = BpmMin) => bpm' = BpmMin]_vars

\* bpm_up has just been called at bpm 300 and left it there: no tempo change
\* since the transport was started.
C20_Witness ==
  /\ last_op = "bpm_up"
  /\ bpm = BpmMax
  /\ steady
  /\ sequencer.playing

\* C21: whatever octave_up and octave_down did so far, base_octave is within
\* [0, 8]; octave_up at 8 and octave_down at 0 change nothing: no key is
\* released, no voice touched, no status message set.
C21_OctaveWithinRange ==
  /\ [](app.base_octave >= 0 /\ app.base_octave <= MaxOctave)
  /\ [][((AppOctaveUp /\ app.base_octave = MaxOctave)
          \/ (AppOctaveDown /\ app.base_octave = 0)) =>
            UNCHANGED <<app, voices, bpm, sequencer, lock, audio>>]_vars

\* octave_up has just been called at octave 8 with a key held: the key is
\* still pressed and its voice still in its envelope.
C21_Witness ==
  /\ last_op = "octave_up"
  /\ app.base_octave = MaxOctave
  /\ app.pressed_keys = {"z"}
  /\ app.status_msg = Status("Octave: ", MaxOctave)
  /\ \E p \in DOMAIN voices : voices[p].stage = "Attack"

\* C22: every sample generate_sample returns is strictly inside (-1, 1):
\* whatever the voices, the master volume and the drum voices that sound,
\* the absolute value of the sample is less than 1.0.
C22_SampleInsideUnit == Abs(generated.out) < SampleOne

\* C23: one generate_sample call ticks the sequencer and the drum machine with
\* the same bpm: two clocks that are Playing with equal sample counters before
\* the call have equal counters after it, and one moves to its next step
\* exactly if the other does, whatever bpm changes came before the call.
C23_ClocksSeeSameBpm ==
  [][(/\ last_op' = "generate_sample"
      /\ sequencer.playing /\ drum_machine.playing
      /\ sequencer.sample_counter = drum_machine.sample_counter)
       => (/\ sequencer'.sample_counter = drum_machine'.sample_counter
           /\ (sequencer'.current_step # sequencer.current_step
                 <=> drum_machine'.current_step # drum_machine.current_step))]_vars

C23_Witness ==
  /\ last_op = "generate_sample"
  /\ bpm # InitialBpm
  /\ sequencer.playing /\ drum_machine.playing
  /\ sequencer.sample_counter = drum_machine.sample_counter
  /\ sequencer.current_step = 3 /\ drum_machine.current_step = 2

\* The pitch quantize was called with and the pitch it returned.
Quantized == last_op = "quantize"
QNote == Unwrap(result).note
QOut == Unwrap(result).out

\* C24: with the scale Off, quantize returns its argument: quantize(p) = p for
\* every pitch p in 0..127 and every root in 0..11.
C24_OffIsIdentity == (Quantized /\ quantizer.scale = "Off") => QOut = QNote

C24_Witness ==
  /\ Quantized /\ quantizer.scale = "Off" /\ quantizer.root = 11
  /\ QNote = 127 /\ QOut = 127

\* The distance from the pitch class rel to the interval iv of the scale, in
\* the octave of the pitch, the one below or the one above.
Distance(iv, rel) == Min(Abs(iv - rel), Min(Abs(iv - 12 - rel), Abs(iv + 12 - rel)))

\* The offset to the nearest scale note: the interval that is first in the
\* table among the nearest ones, and its first candidate at that distance.
NearestOffset(scale, rel) ==
  LET ivs  == intervals(scale)
      near == CHOOSE d \in 0..12 :
                /\ \E j \in 1..Len(ivs) : Distance(ivs[j], rel) = d
                /\ \A j \in 1..Len(ivs) : Distance(ivs[j], rel) >= d
      j1   == CHOOSE j \in 1..Len(ivs) :
                /\ Distance(ivs[j], rel) = near
                /\ \A k \in 1..(j - 1) : Distance(ivs[k], rel) # near
      iv   == ivs[j1]
  IN  IF Abs(iv - rel) = near THEN iv - rel
      ELSE IF Abs(iv - 12 - rel) = near THEN iv - 12 - rel
      ELSE iv + 12 - rel

\* C25: with a scale other than Off, a pitch of the scale is returned as it
\* is, and any other pitch p gives clamp(p + d, 0, 127) for the offset d of
\* smallest absolute value; of two scale notes equally near, the one whose
\* interval comes first in the table wins (Major, root 0: 61 gives 60).
C25_NearestFirstInTable ==
  (Quantized /\ quantizer.scale # "Off") =>
    LET rel == (QNote - quantizer.root) % 12
    IN  /\ QOut = clamp(QNote + NearestOffset(quantizer.scale, rel), 0, 127)
        /\ ((\E j \in DOMAIN intervals(quantizer.scale) :
               intervals(quantizer.scale)[j] = rel) => QOut = QNote)
        /\ ((quantizer.scale = "Major" /\ quantizer.root = 0 /\ QNote = 60) => QOut = 60)
        /\ ((quantizer.scale = "Major" /\ quantizer.root = 0 /\ QNote = 61) => QOut = 60)

C25_Witness ==
  /\ Quantized /\ quantizer.scale = "Major" /\ quantizer.root = 0
  /\ QNote = 61 /\ QOut = 60

\* C26: with a scale other than Off, the pitch quantize returns is a note of
\* the scale: (quantize(p) - root) mod 12 is one of the scale's intervals, for
\* every root and every pitch in 0..127, the pitches 0 and 127 included.
C26_ResultInScale ==
  (Quantized /\ quantizer.scale # "Off") =>
    \E j \in DOMAIN intervals(quantizer.scale) :
      intervals(quantizer.scale)[j] = (QOut - quantizer.root) % 12

\* C27: an effect chain without effects returns the sample it is given, and
\* Synth.fx never has an effect: in every state the melodic bus after the
\* effect stage of generate_sample equals the bus before it.
C27_EmptyChainPassesThrough ==
  /\ fx = <<>>
  /\ \A s \in ChainSamples : EffectChain_process(EffectChain_new, s).out = s
  /\ generated.mel_out = generated.mel_scaled

C27_Witness ==
  /\ last_op = "generate_sample"
  /\ wave_type = "Square"
  /\ 60 \in DOMAIN voices
  /\ generated.mel_scaled > 0
  /\ generated.mel_out = generated.mel_scaled

\* What the effect called name returns for the sample x.
Applied(name, x) == IF name = "gain" THEN 2 * x ELSE x + 1

\* The sample after the first i effects of the chain, one after the other.
RECURSIVE Through(_, _, _)
Through(chain, x, i) ==
  IF i = 0 THEN x ELSE Applied(chain[i].name, Through(chain, x, i - 1))

\* C28: process calls every effect of the chain exactly once, in list order,
\* each with the output of the effect before it (the first with the sample
\* passed), and returns the output of the last; reset_all calls reset exactly
\* once on every effect; both leave the number and the order of the effects
\* as they were.
C28_FoldInOrder ==
  /\ last_op = "process" =>
       LET r == Unwrap(result)
       IN  /\ Len(fx) = Len(r.before)
           /\ \A i \in 1..Len(fx) :
                 /\ fx[i].name = r.before[i].name
                 /\ fx[i].calls = 1 /\ fx[i].resets = 0
                 /\ fx[i].seen = Through(r.before, r.input, i - 1)
           /\ r.out = Through(r.before, r.input, Len(r.before))
  /\ last_op = "reset_all" =>
       LET r == Unwrap(result)
       IN  /\ Len(fx) = Len(r.before)
           /\ \A i \in 1..Len(fx) :
                 /\ fx[i].name = r.before[i].name
                 /\ fx[i].resets = 1 /\ fx[i].calls = 0

C28_Witness ==
  /\ last_op = "process"
  /\ Len(fx) = 3
  /\ fx[1].name = "gain" /\ fx[2].name = "offset" /\ fx[3].name = "gain"
  /\ Unwrap(result).input = 1 /\ Unwrap(result).out = 6
  /\ fx[3].seen = 3

\* The drum machine but for its track patterns.
DrumFrame(dm) ==
  [current_step |-> dm.current_step, sample_counter |-> dm.sample_counter,
   playing |-> dm.playing, num_steps |-> dm.num_steps, hits |-> dm.hits,
   tracks |-> [t \in DOMAIN dm.tracks |->
                 [kind |-> dm.tracks[t].kind, muted |-> dm.tracks[t].muted,
                  volume |-> dm.tracks[t].volume]]]

\* C29: toggling or clearing a step of the track under the cursor changes the
\* pattern bit of that track at that step (flipped by the toggle, off after
\* the clear) and nothing else: every other bit of the track, the patterns,
\* mute flags and volumes of the other tracks, and the shared current_step,
\* counter and playing flag stay as they were.
C29_OnlyThatBit ==
  [][(last_op' \in {"drum_toggle_step", "drum_clear_step"}) =>
       /\ DrumFrame(drum_machine') = DrumFrame(drum_machine)
       /\ \A t \in DOMAIN drum_machine.tracks :
            \A i \in DOMAIN drum_machine.tracks[t].steps :
              drum_machine'.tracks[t].steps[i] =
                IF t = app.drum_track + 1 /\ i = app.drum_step + 1
                  THEN (last_op' = "drum_toggle_step" /\ ~drum_machine.tracks[t].steps[i])
                  ELSE drum_machine.tracks[t].steps[i]]_vars

C29_Witness ==
  /\ last_op = "drum_toggle_step"
  /\ app.drum_track = 7 /\ app.drum_step = 15
  /\ drum_machine.tracks[8].steps[16] /\ ~drum_machine.tracks[8].steps[1]
  /\ drum_machine.tracks[1].steps[1] /\ ~drum_machine.tracks[1].steps[16]
  /\ drum_machine.tracks[1].muted /\ ~drum_machine.tracks[8].muted
  /\ drum_machine.playing /\ drum_machine.current_step = 9

\* C30: trigger_now(track), as a preview key calls it, starts one voice on
\* that track whether the drum machine is Playing or Stopped, and leaves the
\* playing flag, current_step, the sample counter, every pattern and the
\* voices of the other tracks as they were.
C30_PreviewOutsideTransport ==
  [][(last_op' = "drum_preview" /\ result' = Some(",")) =>
       /\ drum_voices(drum_machine') = drum_voices(drum_machine) + 1
       /\ drum_machine'.hits = [drum_machine.hits EXCEPT ![8][DrumSamples] = @ + 1]
       /\ drum_machine'.playing = drum_machine.playing
       /\ drum_machine'.current_step = drum_machine.current_step
       /\ drum_machine'.sample_counter = drum_machine.sample_counter
       /\ drum_machine'.tracks = drum_machine.tracks]_vars

C30_Witness ==
  /\ last_op = "drum_preview" /\ result = Some(",")
  /\ ~drum_machine.playing
  /\ drum_machine.current_step = 9 /\ drum_machine.sample_counter = 1
  /\ drum_machine.hits[8][DrumSamples] = 2
  /\ drum_machine.tracks[8].steps[16]

\* C31: once AudioEngine::new has run, the sample rate the Sequencer computes
\* its step interval from equals Synth.sample_rate, the rate the samples are
\* produced at, whatever rate the audio host reports.
C31_SequencerAtDeviceRate ==
  Started => sequencer.sample_rate = sample_rate

\* C32: while the sequencer keeps playing, every voice a sequencer note-on
\* started is released no later than the next step-boundary event, also when
\* set_step, clear_step or cycle_num_steps ran in between: after an event that
\* follows an earlier one without a pause (gap >= 1), every voice other than
\* the one the event has just started is in Release.  (Under EditSpec every
\* voice is started by the sequencer.)
C32_NoteOffByNextEvent ==
  [][(last_op' = "generate_sample" /\ result' # None /\ gap >= 1)
       => \A p \in DOMAIN voices' :
            \/ p \in Unwrap(result').note_on
            \/ voices'[p].stage = "Release"]_vars

\* The running operation still has a step `op` to take.
HasStep(op) == \E i \in 1..Len(app.todo) : app.todo[i].op = op

\* seq_toggle_play has flipped the transport and not yet sent the note_off.
FlipPending == HasStep("note_off_held") /\ ~HasStep("toggle_play")

\* C33: seq_toggle_play flips the transport and sends the note_off of the
\* returned pitch under one lock acquisition: from the flip that returned a
\* pitch until its note_off the control thread holds the lock and the audio
\* callback takes no step, so no sample is generated in between.
C33_FlipAndNoteOffOneGuard ==
  [][(FlipPending /\ app.held # None) => (lock = "control" /\ audio' = audio)]_vars

C33_Witness ==
  /\ FlipPending
  /\ ~sequencer.playing
  /\ app.held = Some(60)
  /\ 60 \in DOMAIN voices
  /\ voices[60].stage \in {"Attack", "Decay", "Sustain"}

\* The control thread is at a synth.lock() call.
CtlWaiting == NextStep("lock")

\* C34: the lock protocol is free of deadlock.  The control thread never
\* calls lock() while it holds a guard, holds none when its operation has
\* returned, and the audio callback holds none between two buffers; with a
\* fair Mutex a thread that waits for the lock gets it.
C34_LockProtocol ==
  /\ [](CtlWaiting => lock # "control")
  /\ [](app.todo = <<>> => lock # "control")
  /\ [](audio.pc = "idle" => lock # "audio")
  /\ (CtlWaiting ~> lock = "control")
  /\ (audio.pc = "idle" ~> lock = "audio")

C34_Witness ==
  /\ CtlWaiting
  /\ lock = "audio"
  /\ Len(app.todo) = 7
  /\ drum_machine.tracks[1].muted

\* C38: after every App control operation seq_cursor < sequencer.num_steps
\* (the cursor moves and seq_set_note wrap modulo num_steps, seq_cycle_steps
\* puts the cursor to 0 when the pattern shrinks below it), so seq_set_note
\* has written the slot it left and seq_clear_step has emptied the slot under
\* the cursor, both inside the pattern.
C38_CursorInsidePattern ==
  LET n == sequencer.num_steps
  IN  /\ app.seq_cursor < n
      /\ n = Len(sequencer.steps)
      /\ (last_op = "seq_set_note" /\ result # None)
           => Slot(sequencer, (app.seq_cursor + n - 1) % n) = result
      /\ last_op = "seq_clear_step" => Slot(sequencer, app.seq_cursor) = None

C38_Witness ==
  /\ last_op = "seq_set_note"
  /\ sequencer.num_steps = 8
  /\ app.seq_cursor = 0
  /\ Slot(sequencer, 7) = Some(60)
  /\ app.status_msg = Status("Step : ", <<8, 60>>)

\* The frame loop of a callback has ended and its guard is still alive.
BufferDone == audio.pc = "frames" /\ audio.frames = 0

\* C35: a callback takes the lock once, calls generate_sample once per frame
\* (data.len() / channels times) and writes that sample to every channel of
\* the frame, so a playing sequencer's clock advances by the frame count
\* whatever the channel count; and between the frames of a buffer the Synth
\* changes by generate_sample only.
C35_OneSamplePerFrame ==
  /\ [](BufferDone =>
          /\ Len(audio.samples) = Len(audio.data) \div audio.channels
          /\ \A i \in DOMAIN audio.data :
               audio.data[i] =
                 from_sample(audio.format, audio.samples[(i - 1) \div audio.channels + 1])
          /\ sequencer.playing =>
               Clock(sequencer) =
                 (audio.start + Len(audio.samples))
                   % (sequencer.num_steps * Max(samples_per_step(sequencer, bpm), 1)))
  /\ [][audio.pc = "frames" =>
          /\ lock = "audio"
          /\ synth_vars' # synth_vars =>
               (lock' = "audio" /\ audio'.frames = audio.frames - 1
                  /\ last_op' = "generate_sample")]_vars

C35_Witness ==
  /\ BufferDone
  /\ audio.channels = 2
  /\ audio.format = "I16"
  /\ Len(audio.samples) = 2
  /\ audio.samples[1] # audio.samples[2]
  /\ audio.data[3] # 0
  /\ sequencer.playing
  /\ NextStep("lock")

\* The key and the note of the key event the last operation handled.
KeyEvent == Unwrap(result)

\* C36: no stuck keyboard notes.  base_octave changes only with pressed_keys
\* empty and the notes of the keys that were pressed released; a key_release
\* of a pressed key sends note_off for the pitch its key_press sent note_on
\* for; and with pressed_keys empty (the sequencer never started) every
\* active voice is in Release.
C36_NoStuckNotes ==
  /\ [](app.pressed_keys = {} => \A p \in DOMAIN voices : voices[p].stage = "Release")
  /\ [][/\ app'.base_octave # app.base_octave =>
             /\ app'.pressed_keys = {}
             /\ \A k \in DOMAIN app.sent : \A p \in app.sent[k] :
                  p \in DOMAIN voices' => voices'[p].stage = "Release"
        /\ (last_op' = "key_release" /\ result' # None
              /\ Unwrap(result').key \in app.pressed_keys) =>
             Unwrap(result').note = app.sent[Unwrap(result').key]]_vars

\* Both keys of pitch 84 were pressed one octave up, octave_down has just
\* released the voice, and the keyboard is empty at the initial octave.
C36_Witness ==
  /\ last_op = "octave_down"
  /\ app.base_octave = InitialOctave
  /\ app.pressed_keys = {}
  /\ 84 \in DOMAIN voices
  /\ voices[84].stage = "Release"
  /\ voices[84].release_level = LevelOne

\* C37: key_press and key_press_fallback for a key that is in pressed_keys
\* send no note_on and leave the sounding voice as it is; key_release for a
\* key that is not in pressed_keys sends no note_off and changes nothing of
\* the Synth.
C37_RepeatedKeyEvents ==
  [][/\ (last_op' \in {"key_press", "key_press_fallback"} /\ result' # None
           /\ Unwrap(result').key \in app.pressed_keys) =>
          /\ Unwrap(result').note = None
          /\ voices' = voices
          /\ app'.pressed_keys = app.pressed_keys
     /\ (last_op' = "key_release" /\ result' # None
           /\ Unwrap(result').key \notin app.pressed_keys) =>
          /\ Unwrap(result').note = None
          /\ voices' = voices
          /\ UNCHANGED <<bpm, sequencer, mixer>>
          /\ app'.pressed_keys = app.pressed_keys]_vars

\* key_press_fallback has just run for q, which was pressed already: its
\* voice is past its attack, where a note_on would have put it back.
C37_Witness ==
  /\ last_op = "key_press_fallback"
  /\ KeyEvent = [key |-> "q", note |-> None]
  /\ app.pressed_keys = {"q"}
  /\ "q" \in DOMAIN app.sent
  /\ app.sent["q"] = Some(72)
  /\ 72 \in DOMAIN voices
  /\ voices[72].stage = "Sustain"

\* C39: quantize is idempotent and moves a pitch by one semitone at most:
\* for every scale, every root in 0..11 and every pitch p in 0..127,
\* quantize(quantize(p)) = quantize(p) and |quantize(p) - p| <= 1.
C39_IdempotentWithinOne ==
  Quantized =>
    /\ quantize(quantizer, QOut) = QOut
    /\ Abs(QOut - QNote) <= 1

\* Pitch 59 in PentaMajor on C: the nearest scale note is the root of the
\* octave above, one semitone up, and quantize leaves it where it is.
C39_Witness ==
  /\ Quantized /\ quantizer.scale = "PentaMajor" /\ quantizer.root = 0
  /\ QNote = 59 /\ QOut = 60
  /\ quantize(quantizer, 60) = 60
====
